---- MODULE Spec2Model ----
(***************************************************************************)
(* CoreToolScheduler (core/coreToolScheduler.js): the tool-call lifecycle  *)
(* state machine.  JavaScript runs every handler to its next `await`       *)
(* without interruption, so each action below is one such synchronous      *)
(* segment: from an invocation or the resumption of an await up to the     *)
(* next await or the return.                                               *)
(*                                                                         *)
(* Taken from the callers: callIds are unique; every schedule() of a       *)
(* session is passed the same cancellation token; the callbacks            *)
(* (onToolCallsUpdate, onAllToolCallsComplete, outputUpdateHandler) do not *)
(* call back into the scheduler; execute() returns a promise.  A wrapped   *)
(* onConfirm may be invoked any number of times, at any time, while its    *)
(* call is tracked.                                                        *)
(***************************************************************************)
EXTENDS Integers, Sequences, FiniteSets, Bags, TLC

\* Bounds of the exploration.
MaxCalls == 2        \* call ids handed out over the scheduler's life
MaxBatch == 2        \* requests in one schedule() invocation
MaxResponses == 2    \* handleConfirmationResponse() invocations
MaxTurnsRun == 101   \* Turns one sendMessageStream() call is followed through
MaxToolRequests == 2 \* tool-call requests the model makes in one turn
MaxChunks == 3       \* chunks the model stream delivers to one Turn.run()
MaxParts == 2        \* parts in a list handed to convertToFunctionResponse()
MaxCallers == 2      \* calls of the EngineService's public methods
MaxReads == 4        \* chunks read from the upstream body by DockerEngineService.stream()

\* The tool names the registry resolves, and one it does not.
Tools == {"mockTool"}
Unknown == "unknown"
Names == Tools \cup {Unknown}

\* The scheduler only asks whether the mode is YOLO; AUTO_EDIT goes the way of DEFAULT.
ApprovalModes == {"DEFAULT", "YOLO"}
\* ProceedOnce stands for every proceed outcome (ProceedOnce, ProceedAlways,
\* ProceedAlwaysServer, ProceedAlwaysTool): the scheduler treats them alike.
Outcomes == {"Cancel", "ProceedOnce", "ModifyWithEditor"}

\* What a response is and meets: the outcome and, for ModifyWithEditor, the
\* case of the editor branch.
ResponseCases ==
    {<<o, "unused">> : o \in Outcomes \ {"ModifyWithEditor"}}
        \cup {<<"ModifyWithEditor", e>> : e \in {"notModifiable", "none", "opened"}}

VARIABLES
    toolCalls,     \* this.toolCalls: sequence of tool-call records
    approvalMode,  \* this.approvalMode
    aborted,       \* signal.aborted of the cancellation token shared by the callers
    sched,         \* schedule() invocations suspended at an await
    confirms,      \* handleConfirmationResponse() invocations suspended at an await (bag)
    running,       \* execute() promises not yet settled (bag)
    nextId,        \* next fresh callId
    nextBatch,     \* next schedule() invocation number
    responses,     \* handleConfirmationResponse() invocations so far
    notifyCount,   \* history: in how many onAllToolCallsComplete deliveries a callId appeared
    lastOp,        \* history: what the last segment was, where a property asks
    lastEdges,     \* history: status changes made by setStatusInternal in that segment
    lastNotified   \* history: onAllToolCallsComplete deliveries of that segment

\* GeminiClient (core/client.js): one sendMessageStream() or tryCompressChat()
\* call, followed from await to await.
VARIABLES
    cpc,           \* where the call is suspended
    caller,        \* "stream": tryCompressChat runs inside sendMessageStream; "direct": called by itself
    turnsArg,      \* history: the turns argument of the outermost sendMessageStream
    boundedTurns,  \* boundedTurns of the innermost sendMessageStream frame
    turnCount,     \* history: Turns run since the outermost call began
    history,       \* this.chat's history, one tag per message
    signal,        \* the signal argument: "live" or "aborted" ("none" before any call)
    compression,   \* the tryCompressChat call in progress or just returned
    frame          \* history: what the innermost sendMessageStream frame has yielded, and what it began on

schedulerVars == <<toolCalls, approvalMode, aborted, sched, confirms, running,
                   nextId, nextBatch, responses, notifyCount, lastOp,
                   lastEdges, lastNotified>>

clientVars == <<cpc, caller, turnsArg, boundedTurns, turnCount, history,
                signal, compression, frame>>

\* EngineService (engine/engine.ts, engine/api/stream.ts): one stream() or
\* streamWithToolEvents() call, followed from await to await.
VARIABLES
    epc,                \* where the call is suspended
    method,             \* which of the two generators was called
    initialized,        \* this.initialized
    currentMessages,    \* what the next sendMessageStream is passed
    toolCallRequests,   \* the requests collected in this round of the loop
    toolIdx,            \* position of the for-of loop over toolCallRequests
    toolResponseParts,  \* the parts collected for the next round
    yielded,            \* what the generator has yielded in this round of the loop
    lastTool            \* history: the executeToolCall outcome handled by the last step

engineVars == <<epc, method, initialized, currentMessages, toolCallRequests,
                toolIdx, toolResponseParts, yielded, lastTool>>

\* Turn (core/turn.js): one run() call, followed from one suspension of the
\* generator (an await or a yield) to the next.
VARIABLES
    tpc,               \* where run() is suspended
    cancelled,         \* signal.aborted
    turnEvents,        \* what run() has yielded, each event with the chunk it came from
    pendingToolCalls,  \* this.pendingToolCalls, each with the chunk it came from
    chunkNo,           \* chunks the for-await loop has been handed
    toYield,           \* events of the current chunk still to be yielded
    caught,            \* the error the catch block is handling
    cancelledAt,       \* history: where run() was, and chunkNo, when the token was set
    functionCalls      \* history: the function calls of the chunks run() has processed

turnVars == <<tpc, cancelled, turnEvents, pendingToolCalls, chunkNo, toYield,
              caught, cancelledAt, functionCalls>>

\* ToolRegistry (tools/tool-registry.js) and the discovery sources its
\* config names.
VARIABLES
    tools,         \* this.tools: the entries of the Map, one record per entry
    discoveryCmd,  \* what the configured discovery command prints, if one is configured
    mcpTools,      \* the tool names the configured MCP servers offer
    rpc,           \* where a discoverTools() call is suspended
    before,        \* history: this.tools when the last discoverTools() began
    repeated,      \* history: that call began with registry and sources as the call before it left them
    quiet,         \* history: nothing has touched registry or sources since a discoverTools() settled
    rlast,         \* history: how the last step left discoverTools()
    manualNames    \* history: the names registerTool() was given a hand-made tool for

registryVars == <<tools, discoveryCmd, mcpTools, rpc, before, repeated, quiet,
                  rlast, manualNames>>

\* Config's model state (config/config.js), GeminiClient.handleFlashFallback()
\* and GeminiClient.generateJson() (core/client.js).
VARIABLES
    config,        \* Config: model, contentGeneratorConfig, modelSwitchedDuringSession, ...
    fallback,      \* the handleFlashFallback() call in progress or just returned
    json           \* the generateJson() call in progress or just settled

fallbackVars == <<config, fallback, json>>

\* convertToFunctionResponse() (core/coreToolScheduler.js), applied to one
\* tool result.
VARIABLE
    conv           \* the arguments of the call and, once it has returned, its result

convertVars == <<conv>>

\* DiscoveredMCPTool (tools/mcp-tool.js): the static allowlist shared by all
\* MCP tools and the confirmations they have handed out.
VARIABLE
    mcpTool        \* allowlist, the confirmationDetails handed out, the last call made

mcpVars == <<mcpTool>>

\* EngineService.ensureInitialized() (engine/services/engine.ts,
\* engine/engine.ts) under several calls of the public methods.
VARIABLE
    ensure         \* where each caller's ensureInitialized() is suspended; history: the steps run

ensureVars == <<ensure>>

\* DockerEngineService.stream() (engine/services/dockerEngine.ts): one call.
VARIABLE
    docker         \* where stream() is suspended and what it has done to the HTTP response

dockerVars == <<docker>>

vars == <<toolCalls, approvalMode, aborted, sched, confirms, running, nextId,
          nextBatch, responses, notifyCount, lastOp, lastEdges,
          lastNotified, clientVars, engineVars, turnVars, registryVars,
          fallbackVars, convertVars, mcpVars, ensureVars, dockerVars>>

nonSchedulerVars == <<clientVars, engineVars, turnVars, registryVars, fallbackVars, convertVars,
    mcpVars, ensureVars, dockerVars>>
nonClientVars == <<schedulerVars, engineVars, turnVars, registryVars, fallbackVars, convertVars,
    mcpVars, ensureVars, dockerVars>>
nonEngineVars == <<schedulerVars, clientVars, turnVars, registryVars, fallbackVars, convertVars,
    mcpVars, ensureVars, dockerVars>>
nonTurnVars == <<schedulerVars, clientVars, engineVars, registryVars, fallbackVars, convertVars,
    mcpVars, ensureVars, dockerVars>>
nonRegistryVars == <<schedulerVars, clientVars, engineVars, turnVars, fallbackVars, convertVars,
    mcpVars, ensureVars, dockerVars>>
nonFallbackVars == <<schedulerVars, clientVars, engineVars, turnVars, registryVars,
                     convertVars,
    mcpVars, ensureVars, dockerVars>>
nonMcpVars == <<schedulerVars, clientVars, engineVars, turnVars, registryVars,
                fallbackVars, convertVars, ensureVars, dockerVars>>
nonEnsureVars == <<schedulerVars, clientVars, turnVars, registryVars,
                   fallbackVars, convertVars, mcpVars, dockerVars>>
nonDockerVars == <<schedulerVars, clientVars, engineVars, turnVars, registryVars,
                   fallbackVars, convertVars, mcpVars, ensureVars>>
nonConvertVars == <<schedulerVars, clientVars, engineVars, turnVars, registryVars,
                    fallbackVars,
    mcpVars, ensureVars, dockerVars>>

Models == {"DEFAULT_GEMINI_MODEL", "DEFAULT_GEMINI_FLASH_MODEL"}

\* new Config({model, ...}): no contentGeneratorConfig until refreshAuth()
\* has run, no fallback handler; `ready` says that some GeminiClient of this
\* Config has been initialized and can send requests.
NewConfig(model) ==
    [model |-> model, cgc |-> "undefined", switched |-> FALSE,
     handler |-> FALSE, auth |-> "idle", ready |-> FALSE]

\* A new Config and a client on which nothing has been called.
FallbackInit ==
    /\ config = NewConfig("DEFAULT_GEMINI_MODEL")
    /\ fallback = [pc |-> "idle", authType |-> "undefined",
                   currentModel |-> "undefined", result |-> "none",
                   offered |-> FALSE, offeredBefore |-> FALSE]
    /\ json = [pc |-> "idle", aborted |-> FALSE, cause |-> "none",
               error |-> [message |-> <<>>], reports |-> <<>>]

\* No convertToFunctionResponse() call has been made.
ConvertInit == conv = [stage |-> "idle"]

\* static allowlist = new Set(): no confirmation asked yet.
McpInit == mcpTool = [allowlist |-> {}, details |-> {}, last |-> <<>>]

\* No public method of the EngineService has been called.
EnsureInit ==
    ensure = [callers |-> <<>>, withAuth |-> TRUE, completed |-> 0, late |-> 0]

\* No stream() call has been made.
DockerInit == docker = [pc |-> "idle", ops |-> <<>>]

\* No discovery command is configured.
NoDiscoveryCmd == [state |-> "unset", names |-> {}]

\* A registry as its constructor leaves it, with no discovery source.
RegistryInit ==
    /\ tools = {}
    /\ discoveryCmd = NoDiscoveryCmd
    /\ mcpTools = {}
    /\ rpc = "idle"
    /\ before = {}
    /\ repeated = FALSE
    /\ quiet = FALSE
    /\ rlast = "other"
    /\ manualNames = {}

NotCancelled == [during |-> "never", chunkNo |-> 0]

\* A Turn as its constructor leaves it, run() not called.
TurnInit ==
    /\ tpc = "idle"
    /\ cancelled = FALSE
    /\ turnEvents = <<>>
    /\ pendingToolCalls = <<>>
    /\ chunkNo = 0
    /\ toYield = <<>>
    /\ caught = "none"
    /\ cancelledAt = NotCancelled
    /\ functionCalls = <<>>

NoTool == [callId |-> 0, outcome |-> "none"]

\* The engine as its constructor leaves it, no call made.
EngineInit ==
    /\ epc = "idle"
    /\ method = "stream"
    /\ initialized = FALSE
    /\ currentMessages = <<>>
    /\ toolCallRequests = <<>>
    /\ toolIdx = 0
    /\ toolResponseParts = <<>>
    /\ yielded = <<>>
    /\ lastTool = NoTool

\* startChat(extraHistory) that leaves extraHistory out.
StartChat_NoExtra(extraHistory) == <<"env", "envAck">>

\* startChat(extraHistory): the environment message, its acknowledgement,
\* then extraHistory.
StartChat(extraHistory) == <<"env", "envAck">> \o extraHistory

NoCompression ==
    [force |-> FALSE, count |-> 0, limit |-> 0, triggered |-> FALSE,
     result |-> "none", newCount |-> 0]

\* A sendMessageStream frame that has yielded nothing.  `continuation` says
\* whether it is a "Please continue." continuation, and `from` then holds what
\* the frame before it had when its Turn ended (pending tool calls, a live
\* token), what checkNextSpeaker() answered and whether the token was live
\* when this frame was entered; the frame's own three are written as it
\* gets there.
NewFrame(continuation, pending, live, inference, liveAtEntry) ==
    [events |-> <<>>, continuation |-> continuation,
     from |-> [pending |-> pending, live |-> live, inference |-> inference,
               liveAtEntry |-> liveAtEntry],
     pending |-> FALSE, live |-> FALSE, inference |-> "unasked"]

\* The client as initialize() leaves it, no call made.
ClientInit ==
    /\ cpc = "idle"
    /\ caller = "stream"
    /\ turnsArg = 0
    /\ boundedTurns = 0
    /\ turnCount = 0
    /\ history = StartChat(<<>>)
    /\ signal = "none"
    /\ compression = NoCompression
    /\ frame = NewFrame(FALSE, FALSE, FALSE, "unasked", FALSE)

CallIds == 1..MaxCalls

Terminal(status) == status \in {"success", "error", "cancelled"}

Op(kind, callId) == [kind |-> kind, callId |-> callId]

\* The scheduler state threaded through one segment: the tracked calls and
\* what the segment has done so far.
Seg(tc) == [tc |-> tc, edges |-> {}, notes |-> <<>>, started |-> <<>>]

\* checkAndNotifyCompletion() that hands over the first call only.
CheckAndNotifyCompletion_FirstOnly(s) ==
    LET allCallsAreTerminal == \A i \in DOMAIN s.tc : Terminal(s.tc[i].status)
    IN  IF Len(s.tc) > 0 /\ allCallsAreTerminal
        THEN [s EXCEPT !.tc = <<>>, !.notes = Append(@, <<s.tc[1]>>)]
        ELSE s

\* checkAndNotifyCompletion() that hands the calls over but keeps tracking them.
CheckAndNotifyCompletion_NoDrain(s) ==
    LET allCallsAreTerminal == \A i \in DOMAIN s.tc : Terminal(s.tc[i].status)
    IN  IF Len(s.tc) > 0 /\ allCallsAreTerminal
        THEN [s EXCEPT !.notes = Append(@, s.tc)]
        ELSE s

\* checkAndNotifyCompletion()
CheckAndNotifyCompletion(s) ==
    LET allCallsAreTerminal == \A i \in DOMAIN s.tc : Terminal(s.tc[i].status)
    IN  IF Len(s.tc) > 0 /\ allCallsAreTerminal
        THEN [s EXCEPT !.tc = <<>>, !.notes = Append(@, s.tc)]
        ELSE s

\* setStatusInternal that rebuilds terminal calls too.
SetStatusInternal_TerminalToo(s, targetCallId, newStatus, auxiliaryData) ==
    LET hit(i) == s.tc[i].callId = targetCallId
        tc1 == [i \in DOMAIN s.tc |->
                   IF hit(i)
                   THEN [s.tc[i] EXCEPT
                            !.status = newStatus,
                            !.response = IF Terminal(newStatus) THEN auxiliaryData
                                         ELSE "none",
                            !.liveOutput = FALSE]
                   ELSE s.tc[i]]
        made == {<<s.tc[i].status, newStatus>> : i \in {j \in DOMAIN s.tc : hit(j)}}
    IN  CheckAndNotifyCompletion([s EXCEPT !.tc = tc1, !.edges = @ \cup made])

\* setStatusInternal(targetCallId, newStatus, auxiliaryData): a call it
\* changes is built anew, with a response if the new status is terminal and
\* without the liveOutput it had.
SetStatusInternal(s, targetCallId, newStatus, auxiliaryData) ==
    LET hit(i) == s.tc[i].callId = targetCallId /\ ~Terminal(s.tc[i].status)
        tc1 == [i \in DOMAIN s.tc |->
                   IF hit(i)
                   THEN [s.tc[i] EXCEPT
                            !.status = newStatus,
                            !.response = IF Terminal(newStatus) THEN auxiliaryData
                                         ELSE "none",
                            !.liveOutput = FALSE]
                   ELSE s.tc[i]]
        made == {<<s.tc[i].status, newStatus>> : i \in {j \in DOMAIN s.tc : hit(j)}}
    IN  CheckAndNotifyCompletion([s EXCEPT !.tc = tc1, !.edges = @ \cup made])

\* setArgsInternal that leaves the args as they were.
SetArgsInternal_Keep(s, targetCallId) == s

\* setArgsInternal(targetCallId, args)
SetArgsInternal(s, targetCallId) ==
    [s EXCEPT !.tc = [i \in DOMAIN s.tc |->
                         IF s.tc[i].callId = targetCallId
                         THEN [s.tc[i] EXCEPT !.args = "edited"]
                         ELSE s.tc[i]]]

\* isRunning() that overlooks the calls awaiting approval.
IsRunning_ExecutingOnly(tc) ==
    \E i \in DOMAIN tc : tc[i].status = "executing"

\* isRunning()
IsRunning(tc) ==
    \E i \in DOMAIN tc : tc[i].status \in {"executing", "awaiting_approval"}

\* The callIds of the calls in `scheduled`, in list order (callsToExecute).
RECURSIVE ScheduledIds(_)
ScheduledIds(tc) ==
    IF tc = <<>> THEN <<>>
    ELSE IF Head(tc).status = "scheduled"
         THEN <<Head(tc).callId>> \o ScheduledIds(Tail(tc))
         ELSE ScheduledIds(Tail(tc))

\* One iteration of callsToExecute.forEach: the call becomes executing and
\* its execute() is invoked.
StartExecution(s, callId) ==
    LET s1 == SetStatusInternal(s, callId, "executing", "none")
        tc1 == [i \in DOMAIN s1.tc |->
                   IF s1.tc[i].callId = callId
                   THEN [s1.tc[i] EXCEPT !.execCount = IF @ < 2 THEN @ + 1 ELSE @]
                   ELSE s1.tc[i]]
    IN  [s1 EXCEPT !.tc = tc1, !.started = Append(@, callId)]

RECURSIVE Launch(_, _)
Launch(s, ids) ==
    IF ids = <<>> THEN s
    ELSE Launch(StartExecution(s, Head(ids)), Tail(ids))

AllCallsFinalOrScheduled(tc) ==
    \A i \in DOMAIN tc :
        tc[i].status \in {"scheduled", "cancelled", "success", "error"}

\* attemptExecutionOfScheduledCalls without the allCallsFinalOrScheduled gate.
AttemptExecution_NoGate(s) ==
    Launch(s, ScheduledIds(s.tc))

\* attemptExecutionOfScheduledCalls that starts one call per invocation.
AttemptExecution_OneByOne(s) ==
    IF AllCallsFinalOrScheduled(s.tc) /\ ScheduledIds(s.tc) # <<>>
    THEN Launch(s, <<Head(ScheduledIds(s.tc))>>)
    ELSE s

\* attemptExecutionOfScheduledCalls(signal)
AttemptExecutionOfScheduledCalls(s) ==
    IF AllCallsFinalOrScheduled(s.tc)
    THEN Launch(s, ScheduledIds(s.tc))
    ELSE s

\* The tail of schedule(): attemptExecutionOfScheduledCalls, checkAndNotifyCompletion.
ScheduleTail(s) ==
    CheckAndNotifyCompletion(AttemptExecutionOfScheduledCalls(s))

\* The index of the first request at or after `from` whose tool was found
\* (its new call is in validating), 0 if there is none.
NextValidating(names, from) ==
    LET js == {j \in from..Len(names) : names[j] \in Tools}
    IN  IF js = {} THEN 0 ELSE CHOOSE j \in js : \A k \in js : j <= k

\* The for-loop of schedule() under ApprovalMode.YOLO: no await, every
\* validating call of the batch goes to scheduled.
RECURSIVE YoloLoop(_, _, _)
YoloLoop(s, p, from) ==
    LET j == NextValidating(p.names, from)
    IN  IF j = 0 THEN s
        ELSE YoloLoop(SetStatusInternal(s, p.first + j - 1, "scheduled", "none"), p, j + 1)

\* The values the history variables take from a finished segment.
RECURSIVE BumpAll(_, _)
BumpAll(f, ids) ==
    IF ids = <<>> THEN f
    ELSE BumpAll([f EXCEPT ![Head(ids)] = IF @ < 2 THEN @ + 1 ELSE @], Tail(ids))

RECURSIVE Flatten(_)
Flatten(notes) ==
    IF notes = <<>> THEN <<>>
    ELSE [i \in DOMAIN Head(notes) |-> Head(notes)[i].callId] \o Flatten(Tail(notes))

RECURSIVE AddAll(_, _)
AddAll(bag, ids) ==
    IF ids = <<>> THEN bag
    ELSE AddAll(bag (+) SetToBag({Head(ids)}), Tail(ids))

Commit(s, run0) ==
    /\ toolCalls' = s.tc
    /\ lastEdges' = s.edges
    /\ lastNotified' = s.notes
    /\ running' = AddAll(run0, s.started)
    /\ notifyCount' = BumpAll(notifyCount, Flatten(s.notes))
    /\ UNCHANGED nonSchedulerVars

\* The scheduler as its constructor leaves it.
SchedulerInit ==
    /\ toolCalls = <<>>
    /\ approvalMode \in ApprovalModes
    /\ aborted = FALSE
    /\ sched = {}
    /\ confirms = EmptyBag
    /\ running = EmptyBag
    /\ nextId = 1
    /\ nextBatch = 1
    /\ responses = 0
    /\ notifyCount = [c \in CallIds |-> 0]
    /\ lastOp = Op("other", 0)
    /\ lastEdges = {}
    /\ lastNotified = <<>>

Init == SchedulerInit /\ ClientInit /\ EngineInit /\ TurnInit
        /\ RegistryInit /\ FallbackInit /\ ConvertInit /\ McpInit /\ EnsureInit /\ DockerInit

\* AbortController.abort() on the shared token.
Abort ==
    /\ ~aborted
    /\ aborted' = TRUE
    /\ lastOp' = Op("other", 0)
    /\ Commit(Seg(toolCalls), running)
    /\ UNCHANGED <<approvalMode, sched, confirms, nextId, nextBatch, responses>>

\* schedule(request, signal), up to `await this.toolRegistry`: the
\* admission check.
Schedule(names) ==
    /\ nextId + Len(names) - 1 <= MaxCalls
    /\ IF IsRunning(toolCalls)
       THEN /\ lastOp' = Op("rejected", 0)
            /\ UNCHANGED <<sched, nextId, nextBatch>>
       ELSE /\ lastOp' = Op("admitted", 0)
            /\ sched' = sched \cup {[id |-> nextBatch, pc |-> "registry",
                                     names |-> names, first |-> nextId,
                                     idx |-> 0, preAborted |-> aborted]}
            /\ nextId' = nextId + Len(names)
            /\ nextBatch' = nextBatch + 1
    /\ Commit(Seg(toolCalls), running)
    /\ UNCHANGED <<approvalMode, aborted, confirms, responses>>

NewToolCall(p, j) ==
    [callId |-> p.first + j - 1,
     name |-> p.names[j],
     status |-> IF p.names[j] \in Tools THEN "validating" ELSE "error",
     outcome |-> "none",
     args |-> "original",
     batch |-> p.id,
     preAborted |-> p.preAborted,
     alone |-> Len(p.names) = 1,
     size |-> Len(p.names),
     execCount |-> 0,
     wrapped |-> FALSE,
     approved |-> FALSE,
     response |-> IF p.names[j] \in Tools THEN "none" ELSE "notFound",
     liveOutput |-> FALSE]

\* schedule() resumed after `await this.toolRegistry`: the new calls are
\* created and tracked, and the loop runs to its first await (DEFAULT) or to
\* the end of schedule() (YOLO, or no call left in validating).
ScheduleRegistry(p) ==
    /\ p \in sched
    /\ p.pc = "registry"
    \* every invocation awaits the same promise: they resume in invocation order
    /\ \A q \in sched : q.pc = "registry" => p.id <= q.id
    /\ LET newToolCalls == [j \in 1..Len(p.names) |-> NewToolCall(p, j)]
           s0 == Seg(toolCalls \o newToolCalls)
           j == NextValidating(p.names, 1)
       IN  IF approvalMode = "YOLO" \/ j = 0
           THEN /\ sched' = sched \ {p}
                /\ Commit(ScheduleTail(YoloLoop(s0, p, 1)), running)
           ELSE /\ sched' = (sched \ {p}) \cup {[p EXCEPT !.pc = "confirm", !.idx = j]}
                /\ Commit(s0, running)
    /\ lastOp' = Op("other", 0)
    /\ UNCHANGED <<approvalMode, aborted, confirms, nextId, nextBatch, responses>>

\* The wrapped onConfirm of the confirmation details now exists for the call.
MarkWrapped(s, callId) ==
    [s EXCEPT !.tc = [i \in DOMAIN s.tc |->
                         IF s.tc[i].callId = callId /\ ~Terminal(s.tc[i].status)
                         THEN [s.tc[i] EXCEPT !.wrapped = TRUE]
                         ELSE s.tc[i]]]

\* schedule() resumed after `await toolInstance.shouldConfirmExecute(...)`,
\* which returned confirmation details, returned false, or threw.
ScheduleConfirm(p, res) ==
    /\ p \in sched
    /\ p.pc = "confirm"
    /\ LET callId == p.first + p.idx - 1
           s0 == Seg(toolCalls)
           s1 == CASE res = "details" ->
                        SetStatusInternal(MarkWrapped(s0, callId), callId,
                                          "awaiting_approval", "details")
                   [] res = "false" -> SetStatusInternal(s0, callId, "scheduled", "none")
                   [] res = "throw" -> SetStatusInternal(s0, callId, "error", "confirmError")
           j == NextValidating(p.names, p.idx + 1)
       IN  IF j = 0
           THEN /\ sched' = sched \ {p}
                /\ Commit(ScheduleTail(s1), running)
           ELSE /\ sched' = (sched \ {p}) \cup {[p EXCEPT !.idx = j]}
                /\ Commit(s1, running)
    /\ lastOp' = Op("other", 0)
    /\ UNCHANGED <<approvalMode, aborted, confirms, nextId, nextBatch, responses>>

\* `approved` is history: a proceed outcome was recorded for the call while
\* the token was not aborted.
RecordOutcome(s, callId, outcome) ==
    [s EXCEPT !.tc = [i \in DOMAIN s.tc |->
                         IF s.tc[i].callId = callId
                         THEN [s.tc[i] EXCEPT
                                  !.outcome = outcome,
                                  !.approved = @ \/ (outcome = "ProceedOnce" /\ ~aborted)]
                         ELSE s.tc[i]]]

\* handleConfirmationResponse() from the recording of the outcome on.
\* h.found says whether the invocation found the call in awaiting_approval;
\* `editor` is what the ModifyWithEditor branch meets: "notModifiable"
\* (isModifiableTool(tool) is false), "none" (getPreferredEditor() names no
\* editor) or "opened".  The result is the
\* segment state and how the segment ends: "done", "editor" (suspended at
\* `await modifyWithEditor`), "noEditor" (early return) or "typeError"
\* (waitingToolCall is undefined).
Resolve(h, editor) ==
    LET s0 == RecordOutcome(Seg(toolCalls), h.callId, h.outcome)
    IN  IF h.outcome = "Cancel" \/ aborted
        THEN [s |-> AttemptExecutionOfScheduledCalls(
                        SetStatusInternal(s0, h.callId, "cancelled", "notAllowed")),
              end |-> "done"]
        ELSE IF h.outcome = "ModifyWithEditor"
        THEN IF ~h.found THEN [s |-> s0, end |-> "typeError"]
             ELSE IF editor = "notModifiable"
             THEN [s |-> AttemptExecutionOfScheduledCalls(s0), end |-> "done"]
             ELSE IF editor = "none" THEN [s |-> s0, end |-> "noEditor"]
             ELSE [s |-> SetStatusInternal(s0, h.callId, "awaiting_approval", "details"),
                   end |-> "editor"]
        ELSE [s |-> AttemptExecutionOfScheduledCalls(
                        SetStatusInternal(s0, h.callId, "scheduled", "none")),
              end |-> "done"]

Finish(h, r, bag0) ==
    /\ confirms' = IF r.end = "editor"
                   THEN bag0 (+) SetToBag({[h EXCEPT !.pc = "editor"]})
                   ELSE bag0
    /\ Commit(r.s, running)

\* handleConfirmationResponse(callId, originalOnConfirm, outcome, signal)
\* invoked through a wrapped onConfirm the scheduler handed out.  A call
\* found in awaiting_approval suspends the handler at
\* `await originalOnConfirm(outcome)`; otherwise the handler runs on, and
\* with no waitingToolCall it never comes to ask for an editor.
Respond(i, outcome) ==
    /\ i \in DOMAIN toolCalls
    /\ toolCalls[i].wrapped
    /\ responses < MaxResponses
    /\ responses' = responses + 1
    /\ LET c == toolCalls[i]
           h == [callId |-> c.callId, outcome |-> outcome,
                 pc |-> "onConfirm", found |-> c.status = "awaiting_approval"]
       IN  IF h.found
           THEN /\ confirms' = confirms (+) SetToBag({h})
                /\ Commit(Seg(toolCalls), running)
           ELSE Finish(h, Resolve(h, "unused"), confirms)
    /\ lastOp' = Op("other", 0)
    /\ UNCHANGED <<approvalMode, aborted, sched, nextId, nextBatch>>

\* handleConfirmationResponse() resumed after `await originalOnConfirm(outcome)`.
OnConfirmReturns(h, editor) ==
    /\ BagIn(h, confirms)
    /\ h.pc = "onConfirm"
    /\ <<h.outcome, editor>> \in ResponseCases
    /\ Finish(h, Resolve(h, editor), confirms (-) SetToBag({h}))
    /\ lastOp' = Op("other", 0)
    /\ UNCHANGED <<approvalMode, aborted, sched, nextId, nextBatch, responses>>

\* originalOnConfirm(outcome) throws: handleConfirmationResponse() rejects
\* at its first await.
OnConfirmThrows(h) ==
    /\ BagIn(h, confirms)
    /\ h.pc = "onConfirm"
    /\ confirms' = confirms (-) SetToBag({h})
    /\ Commit(Seg(toolCalls), running)
    /\ lastOp' = Op("onConfirmThrows", h.callId)
    /\ UNCHANGED <<approvalMode, aborted, sched, nextId, nextBatch, responses>>

\* handleConfirmationResponse() resumed after `await modifyWithEditor(...)`.
EditorReturns(h) ==
    /\ BagIn(h, confirms)
    /\ h.pc = "editor"
    /\ confirms' = confirms (-) SetToBag({h})
    /\ Commit(AttemptExecutionOfScheduledCalls(
                  SetStatusInternal(SetArgsInternal(Seg(toolCalls), h.callId),
                                    h.callId, "awaiting_approval", "details")),
              running)
    /\ lastOp' = Op("other", 0)
    /\ UNCHANGED <<approvalMode, aborted, sched, nextId, nextBatch, responses>>

\* modifyWithEditor(...) throws: handleConfirmationResponse() rejects.
EditorThrows(h) ==
    /\ BagIn(h, confirms)
    /\ h.pc = "editor"
    /\ confirms' = confirms (-) SetToBag({h})
    /\ Commit(Seg(toolCalls), running)
    /\ lastOp' = Op("other", 0)
    /\ UNCHANGED <<approvalMode, aborted, sched, nextId, nextBatch, responses>>

\* The promise of execute() fulfils: the .then handler.  hasError says
\* whether the toolResult carries an error field; the handler reads only
\* toolResult.llmContent and toolResult.returnDisplay.
ExecuteResolves(callId, hasError) ==
    /\ BagIn(callId, running)
    /\ Commit(IF aborted
              THEN SetStatusInternal(Seg(toolCalls), callId, "cancelled", "userCancelled")
              ELSE SetStatusInternal(Seg(toolCalls), callId, "success", "successResponse"),
              running (-) SetToBag({callId}))
    /\ lastOp' = IF aborted THEN Op("resolvesAborted", callId)
                 ELSE IF hasError THEN Op("resolvesWithError", callId)
                 ELSE Op("other", 0)
    /\ UNCHANGED <<approvalMode, aborted, sched, confirms, nextId, nextBatch, responses>>

\* The tool calls the liveOutputCallback it was handed while its execute()
\* is pending (the tool can update output and the scheduler has an
\* outputUpdateHandler).
LiveOutput(callId) ==
    /\ BagIn(callId, running)
    /\ Commit([Seg(toolCalls) EXCEPT !.tc =
                  [i \in DOMAIN toolCalls |->
                      IF toolCalls[i].callId = callId /\ toolCalls[i].status = "executing"
                      THEN [toolCalls[i] EXCEPT !.liveOutput = TRUE]
                      ELSE toolCalls[i]]],
              running)
    /\ lastOp' = Op("other", 0)
    /\ UNCHANGED <<approvalMode, aborted, sched, confirms, nextId, nextBatch, responses>>

\* The promise of execute() rejects: the .catch handler.
ExecuteRejects(callId) ==
    /\ BagIn(callId, running)
    /\ Commit(SetStatusInternal(Seg(toolCalls), callId, "error", "executionError"),
              running (-) SetToBag({callId}))
    /\ lastOp' = IF aborted THEN Op("rejectsAborted", callId) ELSE Op("other", 0)
    /\ UNCHANGED <<approvalMode, aborted, sched, confirms, nextId, nextBatch, responses>>


Requests == UNION {[1..n -> Names] : n \in 1..MaxBatch}

Next ==
    \/ Abort
    \/ \E names \in Requests : Schedule(names)
    \/ \E p \in sched : ScheduleRegistry(p)
    \/ \E p \in sched, res \in {"details", "false", "throw"} : ScheduleConfirm(p, res)
    \/ \E i \in DOMAIN toolCalls, outcome \in Outcomes : Respond(i, outcome)
    \/ \E h \in BagToSet(confirms), editor \in {r[2] : r \in ResponseCases} :
            OnConfirmReturns(h, editor)
    \/ \E h \in BagToSet(confirms) : OnConfirmThrows(h)
    \/ \E h \in BagToSet(confirms) : EditorReturns(h)
    \/ \E h \in BagToSet(confirms) : EditorThrows(h)
    \/ \E callId \in BagToSet(running), hasError \in BOOLEAN :
            ExecuteResolves(callId, hasError)
    \/ \E callId \in BagToSet(running) : ExecuteRejects(callId)

Spec == Init /\ [][Next]_vars

\* The scheduler with an outputUpdateHandler and a tool that can update its
\* output: the tool is handed a liveOutputCallback.
LiveOutputNext ==
    \/ Next
    \/ \E callId \in BagToSet(running) : LiveOutput(callId)

LiveOutputSpec == Init /\ [][LiveOutputNext]_vars

(***************************************************************************)
(* GeminiClient (core/client.js): sendMessageStream() and                  *)
(* tryCompressChat().  The backend calls (countTokens, the summarizing     *)
(* sendMessage, Turn.run, checkNextSpeaker) are awaited; what they return  *)
(* is an input of the action that resumes the call.                        *)
(***************************************************************************)

MAX_TURNS == 100

\* TOKEN_THRESHOLD_FOR_SUMMARIZATION = 0.7, as numerator and denominator.
\* For integer counts and limits `count < 0.7 * limit` in double arithmetic
\* decides as the exact comparison does: 0.7 * limit rounds to a value
\* strictly between the neighbouring integers when 7 * limit / 10 is not
\* an integer, and to that integer or the double just below it when it is.
TOKEN_THRESHOLD_FOR_SUMMARIZATION == <<7, 10>>

\* What the turns argument is drawn from.
TurnsArgs == {-1, 0, 1, 2, MAX_TURNS, MAX_TURNS + 1}

\* What countTokens() reports and tokenLimit(model) answers.
TokenCounts == {0, 699, 700, 6999, 7000, 8000}
TokenLimits == {1000, 10000}

Min(a, b) == IF a < b THEN a ELSE b

\* originalTokenCount < TOKEN_THRESHOLD_FOR_SUMMARIZATION * tokenLimit(model),
\* with <= in place of <.
UnderThreshold_Inclusive(originalTokenCount, limit) ==
    originalTokenCount * TOKEN_THRESHOLD_FOR_SUMMARIZATION[2]
        <= TOKEN_THRESHOLD_FOR_SUMMARIZATION[1] * limit

\* originalTokenCount < TOKEN_THRESHOLD_FOR_SUMMARIZATION * tokenLimit(model)
UnderThreshold(originalTokenCount, limit) ==
    originalTokenCount * TOKEN_THRESHOLD_FOR_SUMMARIZATION[2]
        < TOKEN_THRESHOLD_FOR_SUMMARIZATION[1] * limit

\* The snapshot pair tryCompressChat() passes to startChat().
SnapshotPair == <<"snapshot", "snapshotAck">>

\* tryCompressChat(force), up to `await countTokens`: nothing is done on an
\* empty curated history.  `after` is where the caller goes on.
TryCompressChat(force, after) ==
    IF history = <<>>
    THEN /\ cpc' = after
         /\ compression' = [NoCompression EXCEPT !.force = force, !.result = "null"]
    ELSE /\ cpc' = "countTokens"
         /\ compression' = [NoCompression EXCEPT !.force = force, !.result = "pending"]

\* A sendMessageStream frame whose turns argument was already cut to bt.
EnterFrame(bt) ==
    /\ boundedTurns' = bt
    /\ IF bt = 0
       THEN cpc' = "done" /\ UNCHANGED compression
       ELSE TryCompressChat(FALSE, "turn")

\* sendMessageStream(request, signal, turns) called from outside.
SendMessageStream(turns, sig) ==
    /\ cpc = "idle"
    /\ caller' = "stream"
    /\ turnsArg' = turns
    /\ signal' = sig
    /\ turnCount' = 0
    /\ EnterFrame(Min(turns, MAX_TURNS))
    /\ frame' = NewFrame(FALSE, FALSE, FALSE, "unasked", sig = "live")
    /\ UNCHANGED <<history, nonClientVars>>

\* tryCompressChat(force) called from outside.
CompressDirectly(force) ==
    /\ cpc = "idle"
    /\ caller' = "direct"
    /\ TryCompressChat(force, "done")
    /\ UNCHANGED <<turnsArg, boundedTurns, turnCount, history, signal, frame, nonClientVars>>

\* setHistory([]) on an idle client.
SetHistory ==
    /\ cpc = "idle"
    /\ history # <<>>
    /\ history' = <<>>
    /\ UNCHANGED <<cpc, caller, turnsArg, boundedTurns, turnCount, signal,
                   compression, frame, nonClientVars>>

\* The place a finished tryCompressChat() returns to.
AfterCompress == IF caller = "stream" THEN "turn" ELSE "done"

\* tryCompressChat() from the token count to the summarizing sendMessage:
\* not forced and under the threshold, it returns null.
Decide(originalTokenCount, limit) ==
    IF ~compression.force /\ UnderThreshold(originalTokenCount, limit)
    THEN /\ cpc' = AfterCompress
         /\ compression' = [compression EXCEPT !.count = originalTokenCount,
                                               !.limit = limit,
                                               !.result = "null"]
    ELSE /\ cpc' = "summarize"
         /\ compression' = [compression EXCEPT !.count = originalTokenCount,
                                               !.limit = limit,
                                               !.triggered = TRUE]

\* countTokens() answers with a total.
CountTokensReturns(totalTokens, limit) ==
    /\ cpc = "countTokens"
    /\ Decide(totalTokens, limit)
    /\ UNCHANGED <<caller, turnsArg, boundedTurns, turnCount, history, signal,
                   frame, nonClientVars>>

\* countTokens() answers without a total: the count is taken to be 0.
CountTokensUndefined(limit) ==
    /\ cpc = "countTokens"
    /\ Decide(0, limit)
    /\ UNCHANGED <<caller, turnsArg, boundedTurns, turnCount, history, signal,
                   frame, nonClientVars>>

\* An awaited backend call of tryCompressChat() rejects: the error leaves
\* tryCompressChat() and, with it, sendMessageStream().
CompressThrows ==
    /\ cpc \in {"countTokens", "summarize", "recount"}
    /\ cpc' = "threw"
    /\ UNCHANGED <<caller, turnsArg, boundedTurns, turnCount, history, signal,
                   compression, frame, nonClientVars>>

\* The summary arrives and startChat() builds the new chat.
SummarizeReturns ==
    /\ cpc = "summarize"
    /\ history' = StartChat(SnapshotPair)
    /\ cpc' = "recount"
    /\ compression' = [compression EXCEPT !.result = "replaced"]
    /\ UNCHANGED <<caller, turnsArg, boundedTurns, turnCount, signal,
                   frame, nonClientVars>>

\* The ChatCompressed event sendMessageStream yields for what
\* tryCompressChat() returned.
ChatCompressed(originalTokenCount, newTokenCount) ==
    [type |-> "ChatCompressed",
     value |-> [originalTokenCount |-> originalTokenCount,
                newTokenCount |-> newTokenCount]]

\* The second countTokens() answers with a total: tryCompressChat() returns
\* the two counts, and sendMessageStream yields them.
RecountReturns(totalTokens) ==
    /\ cpc = "recount"
    /\ cpc' = AfterCompress
    /\ compression' = [compression EXCEPT !.result = "info",
                                          !.newCount = totalTokens]
    /\ frame' = IF caller = "stream"
                THEN [frame EXCEPT !.events =
                         Append(@, ChatCompressed(compression.count, totalTokens))]
                ELSE frame
    /\ UNCHANGED <<caller, turnsArg, boundedTurns, turnCount, history, signal,
                   nonClientVars>>

\* The second countTokens() answers without a total: tryCompressChat()
\* returns null.
RecountUndefined ==
    /\ cpc = "recount"
    /\ cpc' = AfterCompress
    /\ compression' = [compression EXCEPT !.result = "null"]
    /\ UNCHANGED <<caller, turnsArg, boundedTurns, turnCount, history, signal,
                   frame, nonClientVars>>

\* The end of turn.run() with the pending tool calls overlooked.
TurnRuns_PendingOverlooked(pending) ==
    /\ cpc = "turn"
    /\ turnCount < MaxTurnsRun
    /\ turnCount' = turnCount + 1
    /\ history' = history \o <<"user", "model">>
    /\ compression' = NoCompression
    /\ frame' = [frame EXCEPT !.events = Append(@, [type |-> "TurnEvents"]),
                              !.pending = pending,
                              !.live = (signal = "live"),
                              !.inference = "unasked"]
    /\ cpc' = IF signal = "live" THEN "nextSpeaker" ELSE "done"
    /\ UNCHANGED <<caller, turnsArg, boundedTurns, signal, nonClientVars>>

\* turn.run() is consumed to its end; `pending` tells whether it left
\* pending tool calls.
TurnRuns(pending) ==
    /\ cpc = "turn"
    /\ turnCount < MaxTurnsRun
    /\ turnCount' = turnCount + 1
    /\ history' = history \o <<"user", "model">>
    /\ compression' = NoCompression
    /\ frame' = [frame EXCEPT !.events = Append(@, [type |-> "TurnEvents"]),
                              !.pending = pending,
                              !.live = (signal = "live"),
                              !.inference = "unasked"]
    /\ cpc' = IF ~pending /\ signal = "live" THEN "nextSpeaker" ELSE "done"
    /\ UNCHANGED <<caller, turnsArg, boundedTurns, signal, nonClientVars>>

\* turn.run() throws (a backend authorization failure).
TurnThrows ==
    /\ cpc = "turn"
    /\ turnCount < MaxTurnsRun
    /\ turnCount' = turnCount + 1
    /\ compression' = NoCompression
    /\ cpc' = "threw"
    /\ UNCHANGED <<caller, turnsArg, boundedTurns, history, signal, frame, nonClientVars>>

\* The caller aborts the signal while the call is under way.
AbortSignal ==
    /\ cpc \notin {"idle", "done", "threw"}
    /\ caller = "stream"
    /\ signal = "live"
    /\ signal' = "aborted"
    /\ UNCHANGED <<cpc, caller, turnsArg, boundedTurns, turnCount, history,
                   compression, frame, nonClientVars>>

\* checkNextSpeaker() answers; on 'model' the call recurs with
\* boundedTurns - 1.
NextSpeakerReturns(next_speaker) ==
    /\ cpc = "nextSpeaker"
    /\ IF next_speaker = "model"
       THEN /\ EnterFrame(Min(boundedTurns - 1, MAX_TURNS))
            /\ frame' = NewFrame(TRUE, frame.pending, frame.live, next_speaker,
                                signal = "live")
       ELSE /\ cpc' = "done"
            /\ frame' = [frame EXCEPT !.inference = next_speaker]
            /\ UNCHANGED <<boundedTurns, compression>>
    /\ UNCHANGED <<caller, turnsArg, turnCount, history, signal, nonClientVars>>

\* checkNextSpeaker() rejects: the error leaves sendMessageStream().
NextSpeakerThrows ==
    /\ cpc = "nextSpeaker"
    /\ cpc' = "threw"
    /\ frame' = [frame EXCEPT !.inference = "threw"]
    /\ UNCHANGED <<caller, turnsArg, boundedTurns, turnCount, history, signal,
                   compression, nonClientVars>>

ClientNext ==
    \/ \E turns \in TurnsArgs, sig \in {"live", "aborted"} :
          SendMessageStream(turns, sig)
    \/ \E force \in BOOLEAN : CompressDirectly(force)
    \/ SetHistory
    \/ \E totalTokens \in TokenCounts, limit \in TokenLimits :
          CountTokensReturns(totalTokens, limit)
    \/ \E limit \in TokenLimits : CountTokensUndefined(limit)
    \/ CompressThrows
    \/ SummarizeReturns
    \/ \E totalTokens \in TokenCounts : RecountReturns(totalTokens)
    \/ RecountUndefined
    \/ \E pending \in BOOLEAN : TurnRuns(pending)
    \/ TurnThrows
    \/ AbortSignal
    \/ \E next_speaker \in {"model", "user", "none"} :
          NextSpeakerReturns(next_speaker)
    \/ NextSpeakerThrows

\* A client beside a scheduler that is never called.
ClientSpecInit ==
    SchedulerInit /\ approvalMode = "DEFAULT" /\ ClientInit /\ EngineInit /\ TurnInit
        /\ RegistryInit /\ FallbackInit /\ ConvertInit /\ McpInit /\ EnsureInit /\ DockerInit

ClientSpec == ClientSpecInit /\ [][ClientNext]_vars

(***************************************************************************)
(* EngineService (engine/engine.ts, engine/api/stream.ts): the loop of     *)
(* stream() and streamWithToolEvents(): a turn, the tool calls it          *)
(* requested, the continuation turn.  What sendMessageStream yields and    *)
(* what executeToolCall returns are inputs of the action that resumes the  *)
(* generator.  The requests of a round are numbered 1, 2, ... in the       *)
(* order the turn yielded them.                                            *)
(***************************************************************************)

Methods == {"stream", "streamWithToolEvents"}

\* What executeToolCall() does: a response with parts, one without, a
\* response carrying an error, or an exception.
ToolOutcomes == {"ok", "okNoParts", "error", "throws"}

\* An event only streamWithToolEvents() yields.
ToolEvent(type, callId) ==
    IF method = "streamWithToolEvents" THEN <<[type |-> type, callId |-> callId]>>
    ELSE <<>>

\* stream(message, context) / streamWithToolEvents(message, context), up to
\* `await this.ensureInitialized()` or, if that has nothing to await, up to
\* the first sendMessageStream.
Stream(m) ==
    /\ epc \in {"idle", "done", "threw"}
    /\ method' = m
    /\ epc' = IF initialized THEN "turn" ELSE "initializing"
    /\ currentMessages' = <<"fullMessage">>
    /\ toolCallRequests' = <<>>
    /\ toolIdx' = 0
    /\ toolResponseParts' = <<>>
    /\ yielded' = <<>>
    /\ lastTool' = NoTool
    /\ UNCHANGED <<initialized, nonEngineVars>>

\* ensureInitialized() completes.
InitReturns ==
    /\ epc = "initializing"
    /\ initialized' = TRUE
    /\ epc' = "turn"
    /\ UNCHANGED <<method, currentMessages, toolCallRequests, toolIdx,
                   toolResponseParts, yielded, lastTool, nonEngineVars>>

\* ensureInitialized() throws.
InitThrows ==
    /\ epc = "initializing"
    /\ epc' = "threw"
    /\ UNCHANGED <<method, initialized, currentMessages, toolCallRequests,
                   toolIdx, toolResponseParts, yielded, lastTool, nonEngineVars>>

\* The events of one turn as the generator passes them on: the content
\* token if any, then one tool_request per request.
RECURSIVE RequestEvents(_, _)
RequestEvents(k, n) ==
    IF k > n THEN <<>>
    ELSE ToolEvent("tool_request", k) \o RequestEvents(k + 1, n)

\* The sendMessageStream of this round is consumed to its end, having
\* yielded Content (or not) and n ToolCallRequest events.  With no request
\* the loop breaks; otherwise the first executeToolCall is awaited.
TurnEnds(content, n) ==
    /\ epc = "turn"
    /\ toolCallRequests' = [k \in 1..n |-> k]
    /\ toolResponseParts' = <<>>
    /\ lastTool' = NoTool
    /\ LET events == (IF content THEN <<[type |-> "content", callId |-> 0]>>
                      ELSE <<>>) \o RequestEvents(1, n)
       IN  IF n > 0
           THEN /\ epc' = "tool"
                /\ toolIdx' = 1
                /\ yielded' = events \o ToolEvent("tool_start", 1)
           ELSE /\ epc' = "done"
                /\ toolIdx' = 0
                /\ yielded' = events
    /\ UNCHANGED <<method, initialized, currentMessages, nonEngineVars>>

\* sendMessageStream throws: 'Chat stream failed' leaves the generator.
TurnFails ==
    /\ epc = "turn"
    /\ epc' = "threw"
    /\ lastTool' = NoTool
    /\ UNCHANGED <<method, initialized, currentMessages, toolCallRequests,
                   toolIdx, toolResponseParts, yielded, nonEngineVars>>

\* executeToolCall() of the request at toolIdx settles.  A response with an
\* error, or an exception, is reported and the generator returns; a good
\* response is collected, and after the last one the loop goes round.
ToolReturns(outcome) ==
    /\ epc = "tool"
    /\ LET callId == toolCallRequests[toolIdx]
           parts == IF outcome = "ok"
                    THEN Append(toolResponseParts, [response |-> "ok", callId |-> callId])
                    ELSE toolResponseParts
       IN  /\ lastTool' = [callId |-> callId, outcome |-> outcome]
           /\ IF outcome \in {"error", "throws"}
              THEN /\ yielded' = Append(yielded, [type |-> IF method = "stream"
                                                          THEN "error_text"
                                                          ELSE "tool_error",
                                                  callId |-> callId])
                   /\ epc' = "done"
                   /\ UNCHANGED <<toolIdx, toolResponseParts, currentMessages>>
              ELSE /\ toolResponseParts' = parts
                   /\ IF toolIdx < Len(toolCallRequests)
                      THEN /\ toolIdx' = toolIdx + 1
                           /\ yielded' = yielded \o ToolEvent("tool_result", callId)
                                            \o ToolEvent("tool_start", toolIdx + 1)
                           /\ UNCHANGED <<epc, currentMessages>>
                      ELSE /\ toolIdx' = 0
                           /\ yielded' = yielded \o ToolEvent("tool_result", callId)
                           /\ currentMessages' = parts
                           /\ epc' = "turn"
    /\ UNCHANGED <<method, initialized, toolCallRequests, nonEngineVars>>

EngineNext ==
    \/ \E m \in Methods : Stream(m)
    \/ InitReturns
    \/ InitThrows
    \/ \E content \in BOOLEAN, n \in 0..MaxToolRequests : TurnEnds(content, n)
    \/ TurnFails
    \/ \E outcome \in ToolOutcomes : ToolReturns(outcome)

\* An engine beside a client and a scheduler that are never called.
EngineSpecInit ==
    SchedulerInit /\ approvalMode = "DEFAULT" /\ ClientInit /\ EngineInit /\ TurnInit
        /\ RegistryInit /\ FallbackInit /\ ConvertInit /\ McpInit /\ EnsureInit /\ DockerInit

EngineSpec == EngineSpecInit /\ [][EngineNext]_vars

\* The backend and the tools answer every call: a suspended generator is
\* resumed.
EngineLiveSpec == EngineSpec /\ WF_vars(EngineNext)

(***************************************************************************)
(* Turn (core/turn.js): run().  The generator is suspended at every await  *)
(* and at every yield; the token can be set at any suspension.  A chunk is *)
(* what it makes run() yield: a thought, text, function calls, text and a  *)
(* function call, or nothing.  A function call comes with the backend's id *)
(* or without one; a chunk whose first part is a thought may carry a       *)
(* function call after it.                                                 *)
(***************************************************************************)

ChunkKinds == {"thought", "text", "call", "callNoId", "twoCalls", "textAndCall",
               "thoughtAndCall", "empty"}

\* fnCall.id of a function call the backend gave no id.
NoId == <<>>

\* resp.functionCalls of a chunk of the kind: the k-th function call of
\* chunk c has the id <<c, k>>, if it has one.
FunctionCalls(kind, chunk) ==
    LET fnCall(k, hasId) == [chunk |-> chunk, k |-> k,
                             id |-> IF hasId THEN <<chunk, k>> ELSE NoId]
    IN  CASE kind \in {"call", "textAndCall", "thoughtAndCall"} -> <<fnCall(1, TRUE)>>
          [] kind = "callNoId" -> <<fnCall(1, FALSE)>>
          [] kind = "twoCalls" -> <<fnCall(1, TRUE), fnCall(2, FALSE)>>
          [] OTHER -> <<>>

\* handlePendingFunctionCall(fnCall): the toolCallRequest it pushes on
\* pendingToolCalls and yields, `callId = fnCall.id ?? <generated>`.
HandlePendingFunctionCall(fnCall) ==
    [chunk |-> fnCall.chunk,
     callId |-> IF fnCall.id = NoId THEN <<"generated", fnCall.chunk, fnCall.k>>
                ELSE fnCall.id]

\* What toFriendlyError() hands the catch block: an UnauthorizedError, or
\* another error with or without a numeric status.
ErrorKinds == {"unauthorized", "withStatus", "noStatus"}

\* What one chunk makes run() yield, in order: after a thought the loop
\* goes on to the next chunk; otherwise the text, then every function call.
ChunkEvents(kind, chunk) ==
    LET calls == FunctionCalls(kind, chunk)
    IN  IF kind \in {"thought", "thoughtAndCall"} THEN <<[type |-> "Thought"]>>
        ELSE (IF kind \in {"text", "textAndCall"} THEN <<[type |-> "Content"]>>
              ELSE <<>>)
             \o [k \in DOMAIN calls |->
                    [type |-> "ToolCallRequest", fnCall |-> calls[k]]]

Event(type, chunk) == [type |-> type, chunk |-> chunk]

\* run(req, signal), up to `await this.chat.sendMessageStream`.
Run(alreadyCancelled) ==
    /\ tpc = "idle"
    /\ tpc' = "opening"
    /\ cancelled' = alreadyCancelled
    /\ UNCHANGED <<turnEvents, pendingToolCalls, chunkNo, toYield, caught,
                   cancelledAt, functionCalls, nonTurnVars>>

\* The caller sets the token while run() is suspended.
Cancel ==
    /\ tpc \in {"opening", "streaming", "inChunk", "reporting"}
    /\ ~cancelled
    /\ cancelled' = TRUE
    /\ cancelledAt' = [during |-> tpc, chunkNo |-> chunkNo]
    /\ UNCHANGED <<tpc, turnEvents, pendingToolCalls, chunkNo, toYield, caught,
                   functionCalls, nonTurnVars>>

\* Yield the first of `queue`, an event of chunk `chunk`; a ToolCallRequest
\* is pushed on pendingToolCalls by handlePendingFunctionCall() first.
YieldNext(queue, chunk) ==
    LET next == Head(queue)
        toolCallRequest == HandlePendingFunctionCall(next.fnCall)
    IN  /\ IF next.type = "ToolCallRequest"
           THEN /\ pendingToolCalls' = Append(pendingToolCalls, toolCallRequest)
                /\ turnEvents' = Append(turnEvents,
                                        [type |-> next.type, chunk |-> chunk,
                                         value |-> toolCallRequest])
           ELSE /\ pendingToolCalls' = pendingToolCalls
                /\ turnEvents' = Append(turnEvents, Event(next.type, chunk))
        /\ toYield' = Tail(queue)
        /\ tpc' = "inChunk"

\* The catch block without its UnauthorizedError test.
Catch_NoUnauthorizedTest(kind) ==
    /\ caught' = kind
    /\ IF cancelled
       THEN /\ tpc' = "returned"
            /\ turnEvents' = Append(turnEvents, Event("UserCancelled", 0))
       ELSE tpc' = "reporting" /\ UNCHANGED turnEvents

\* The catch block, up to its yield or `await reportError`: an
\* UnauthorizedError is thrown on; with the token set UserCancelled is
\* yielded; anything else is reported first.
Catch(kind) ==
    /\ caught' = kind
    /\ IF kind = "unauthorized"
       THEN tpc' = "threw" /\ UNCHANGED turnEvents
       ELSE IF cancelled
            THEN /\ tpc' = "returned"
                 /\ turnEvents' = Append(turnEvents, Event("UserCancelled", 0))
            ELSE tpc' = "reporting" /\ UNCHANGED turnEvents

\* chat.sendMessageStream() resolves with the response stream.
OpenReturns ==
    /\ tpc = "opening"
    /\ tpc' = "streaming"
    /\ UNCHANGED <<cancelled, turnEvents, pendingToolCalls, chunkNo, toYield,
                   caught, cancelledAt, functionCalls, nonTurnVars>>

\* chat.sendMessageStream() rejects.
OpenFails(kind) ==
    /\ tpc = "opening"
    /\ Catch(kind)
    /\ UNCHANGED <<cancelled, pendingToolCalls, chunkNo, toYield, cancelledAt,
                   functionCalls, nonTurnVars>>

\* The stream hands the loop a chunk: with the token set UserCancelled is
\* yielded and run() returns; otherwise the chunk is processed up to its
\* first yield.
ChunkArrives(kind) ==
    /\ tpc = "streaming"
    /\ chunkNo < MaxChunks
    /\ chunkNo' = chunkNo + 1
    /\ IF cancelled
       THEN /\ turnEvents' = Append(turnEvents, Event("UserCancelled", 0))
            /\ tpc' = "returned"
            /\ UNCHANGED <<pendingToolCalls, toYield, functionCalls>>
       ELSE /\ functionCalls' = functionCalls \o FunctionCalls(kind, chunkNo + 1)
            /\ IF ChunkEvents(kind, chunkNo + 1) = <<>>
               THEN UNCHANGED <<tpc, turnEvents, pendingToolCalls, toYield>>
               ELSE YieldNext(ChunkEvents(kind, chunkNo + 1), chunkNo + 1)
    /\ UNCHANGED <<cancelled, caught, cancelledAt, nonTurnVars>>

\* The consumer asks for the next event: the rest of the chunk is
\* processed up to its next yield, or the next chunk is awaited.
Resume ==
    /\ tpc = "inChunk"
    /\ IF toYield = <<>>
       THEN tpc' = "streaming" /\ UNCHANGED <<turnEvents, pendingToolCalls, toYield>>
       ELSE YieldNext(toYield, chunkNo)
    /\ UNCHANGED <<cancelled, chunkNo, caught, cancelledAt, functionCalls, nonTurnVars>>

\* The stream ends: the loop is left and run() returns.
StreamEnds ==
    /\ tpc = "streaming"
    /\ tpc' = "returned"
    /\ UNCHANGED <<cancelled, turnEvents, pendingToolCalls, chunkNo, toYield,
                   caught, cancelledAt, functionCalls, nonTurnVars>>

\* The stream throws.
StreamFails(kind) ==
    /\ tpc = "streaming"
    /\ Catch(kind)
    /\ UNCHANGED <<cancelled, pendingToolCalls, chunkNo, toYield, cancelledAt,
                   functionCalls, nonTurnVars>>

\* reportError() resolves: the Error event is yielded and run() returns.
ReportReturns ==
    /\ tpc = "reporting"
    /\ turnEvents' = Append(turnEvents, Event("Error", 0))
    /\ tpc' = "returned"
    /\ UNCHANGED <<cancelled, pendingToolCalls, chunkNo, toYield, caught,
                   cancelledAt, functionCalls, nonTurnVars>>

TurnNext ==
    \/ \E alreadyCancelled \in BOOLEAN : Run(alreadyCancelled)
    \/ Cancel
    \/ OpenReturns
    \/ \E kind \in ErrorKinds : OpenFails(kind)
    \/ \E kind \in ChunkKinds : ChunkArrives(kind)
    \/ Resume
    \/ StreamEnds
    \/ \E kind \in ErrorKinds : StreamFails(kind)
    \/ ReportReturns

\* A Turn beside an engine, a client and a scheduler that are never called.
TurnSpecInit ==
    SchedulerInit /\ approvalMode = "DEFAULT" /\ ClientInit /\ EngineInit /\ TurnInit
        /\ RegistryInit /\ FallbackInit /\ ConvertInit /\ McpInit /\ EnsureInit /\ DockerInit

TurnSpec == TurnSpecInit /\ [][TurnNext]_vars

(***************************************************************************)
(* ToolRegistry (tools/tool-registry.js): registerTool() and               *)
(* discoverTools().  this.tools is a Map keyed by tool name; an entry is   *)
(* the name together with the kind of tool object stored under it.         *)
(* discoverMcpTools() (tools/mcp-client.js) registers one DiscoveredMCPTool *)
(* per tool the configured servers offer, through registerTool().          *)
(***************************************************************************)

RegistryNames == {"read_file", "lint"}

\* What the discovery command can print: something that is not JSON, or a
\* list of function declarations.
DiscoveryCmds ==
    {NoDiscoveryCmd, [state |-> "invalid", names |-> {}]}
        \cup {[state |-> "ok", names |-> ns] : ns \in SUBSET RegistryNames}

Entry(name, kind) == [name |-> name, kind |-> kind]

\* this.tools.set(tool.name, tool): the entry under that name is replaced.
MapSet(map, name, kind) ==
    {e \in map : e.name # name} \cup {Entry(name, kind)}

\* registerTool() for each name of `names`, all of one kind.
RECURSIVE RegisterAll(_, _, _)
RegisterAll(map, names, kind) ==
    IF names = {} THEN map
    ELSE LET name == CHOOSE n \in names : TRUE
         IN  RegisterAll(MapSet(map, name, kind), names \ {name}, kind)

\* The eviction loop of discoverTools() that deletes every entry.
Evict_All(map) == {}

\* The eviction loop of discoverTools() that deletes nothing.
Evict_Nothing(map) == map

\* The eviction loop of discoverTools(): every DiscoveredTool and
\* DiscoveredMCPTool is deleted under its own name.
Evict(map) ==
    {e \in map : e.kind \notin {"discovered", "mcp"}}

\* registerTool(tool) called with a manually constructed tool.
RegisterTool(name) ==
    /\ rpc = "idle"
    /\ tools' = MapSet(tools, name, "manual")
    /\ manualNames' = manualNames \cup {name}
    /\ quiet' = FALSE
    /\ rlast' = "other"
    /\ UNCHANGED <<discoveryCmd, mcpTools, rpc, before, repeated, nonRegistryVars>>

\* The project's discovery command or its MCP servers come to offer
\* something else.
SourcesChange(cmd, mcp) ==
    /\ rpc = "idle"
    /\ <<cmd, mcp>> # <<discoveryCmd, mcpTools>>
    /\ discoveryCmd' = cmd
    /\ mcpTools' = mcp
    /\ quiet' = FALSE
    /\ rlast' = "other"
    /\ UNCHANGED <<tools, rpc, before, repeated, manualNames, nonRegistryVars>>

\* discoverTools(), up to `await discoverMcpTools(...)`; JSON.parse throws
\* on output that is not JSON and the call rejects there.
DiscoverTools ==
    /\ rpc = "idle"
    /\ before' = tools
    /\ repeated' = quiet
    /\ IF discoveryCmd.state = "invalid"
       THEN /\ tools' = Evict(tools)
            /\ rlast' = "threw"
            /\ quiet' = TRUE
            /\ UNCHANGED rpc
       ELSE /\ tools' = RegisterAll(Evict(tools), discoveryCmd.names, "discovered")
            /\ rpc' = "mcp"
            /\ rlast' = "other"
            /\ UNCHANGED quiet
    /\ UNCHANGED <<discoveryCmd, mcpTools, manualNames, nonRegistryVars>>

\* discoverMcpTools() resolves, having registered the servers' tools.
McpToolsDiscovered ==
    /\ rpc = "mcp"
    /\ tools' = RegisterAll(tools, mcpTools, "mcp")
    /\ rpc' = "idle"
    /\ rlast' = "completed"
    /\ quiet' = TRUE
    /\ UNCHANGED <<discoveryCmd, mcpTools, before, repeated, manualNames,
                   nonRegistryVars>>

RegistryNext ==
    \/ \E name \in RegistryNames : RegisterTool(name)
    \/ \E cmd \in DiscoveryCmds, mcp \in SUBSET RegistryNames : SourcesChange(cmd, mcp)
    \/ DiscoverTools
    \/ McpToolsDiscovered

\* A registry beside components that are never called.
RegistrySpecInit ==
    SchedulerInit /\ approvalMode = "DEFAULT" /\ ClientInit /\ EngineInit /\ TurnInit
        /\ RegistryInit /\ FallbackInit /\ ConvertInit /\ McpInit /\ EnsureInit /\ DockerInit

RegistrySpec == RegistrySpecInit /\ [][RegistryNext]_vars

(***************************************************************************)
(* Config's model state (config/config.js) with                            *)
(* GeminiClient.handleFlashFallback() and GeminiClient.generateJson()      *)
(* (core/client.js).  contentGeneratorConfig is "undefined" or stands for  *)
(* its model field.  An error is its message, cut at the places where the  *)
(* code concatenates: a wrapped error's message is the wrapper's prefix    *)
(* followed by the message of the error it wraps.                          *)
(***************************************************************************)

AuthTypes == {"oauth-personal", "gemini-api-key", "vertex-ai"}

\* Config.getModel(): contentGeneratorConfig?.model || this.model.
GetModel(cfg) == IF cfg.cgc = "undefined" THEN cfg.model ELSE cfg.cgc

\* Config.setModel(newModel): nothing happens without a contentGeneratorConfig.
SetModel(cfg, newModel) ==
    IF cfg.cgc = "undefined" THEN cfg
    ELSE [cfg EXCEPT !.cgc = newModel, !.switched = TRUE]

\* config.refreshAuth(authMethod), up to its first await:
\* contentGeneratorConfig is cleared while the new client is built.  Clients
\* built earlier keep running on the same Config.
RefreshAuth ==
    /\ config.auth = "idle"
    /\ config' = [config EXCEPT !.cgc = "undefined", !.auth = "refreshing"]
    /\ UNCHANGED <<fallback, json, nonFallbackVars>>

\* refreshAuth() after gc.initialize(contentConfig) resolved: the default
\* model again, the session flag reset.
RefreshAuthReturns ==
    /\ config.auth = "refreshing"
    /\ config' = [config EXCEPT !.cgc = config.model, !.switched = FALSE,
                                !.auth = "idle", !.ready = TRUE]
    /\ fallback' = [fallback EXCEPT !.offered = FALSE]
    /\ UNCHANGED <<json, nonFallbackVars>>

\* config.setModel(newModel) called by the application.
ModelSet(newModel) ==
    /\ config' = SetModel(config, newModel)
    /\ UNCHANGED <<fallback, json, nonFallbackVars>>

\* config.resetModelToDefault().
ResetModelToDefault ==
    /\ config.cgc # "undefined"
    /\ config' = [config EXCEPT !.cgc = config.model, !.switched = FALSE]
    /\ fallback' = [fallback EXCEPT !.offered = FALSE]
    /\ UNCHANGED <<json, nonFallbackVars>>

\* config.setFlashFallbackHandler(handler).
SetFlashFallbackHandler ==
    /\ ~config.handler
    /\ config' = [config EXCEPT !.handler = TRUE]
    /\ UNCHANGED <<fallback, json, nonFallbackVars>>

\* handleFlashFallback(authType), up to `await fallbackHandler(...)` or to
\* one of its early returns.
HandleFlashFallback(authType) ==
    /\ config.ready
    /\ fallback.pc = "idle"
    /\ LET currentModel == GetModel(config)
           call == [fallback EXCEPT !.authType = authType,
                                    !.currentModel = currentModel,
                                    !.offeredBefore = fallback.offered]
       IN  fallback' =
               IF authType # "oauth-personal" THEN [call EXCEPT !.result = "null"]
               ELSE IF currentModel = "DEFAULT_GEMINI_FLASH_MODEL"
                    THEN [call EXCEPT !.result = "null"]
               ELSE IF config.handler
                    THEN [call EXCEPT !.pc = "handler", !.result = "none"]
               ELSE [call EXCEPT !.result = "null"]
    /\ UNCHANGED <<config, json, nonFallbackVars>>

\* The fallback handler resolves; if it accepted, the model is switched and
\* returned.
HandlerReturns(accepted) ==
    /\ fallback.pc = "handler"
    /\ IF accepted
       THEN /\ config' = SetModel(config, "DEFAULT_GEMINI_FLASH_MODEL")
            /\ fallback' = [fallback EXCEPT !.pc = "idle", !.offered = TRUE,
                                            !.result = "DEFAULT_GEMINI_FLASH_MODEL"]
       ELSE /\ fallback' = [fallback EXCEPT !.pc = "idle", !.result = "null"]
            /\ UNCHANGED config
    /\ UNCHANGED <<json, nonFallbackVars>>

\* The fallback handler rejects: caught and logged, null returned.
HandlerThrows ==
    /\ fallback.pc = "handler"
    /\ fallback' = [fallback EXCEPT !.pc = "idle", !.result = "null"]
    /\ UNCHANGED <<config, json, nonFallbackVars>>

EmptyResponseMessage == "API returned an empty response for generateJson."
ParsePrefix == "Failed to parse API response as JSON: "
ApiPrefix == "Failed to generate JSON content: "

\* JSON.parse(text): the message of the SyntaxError it throws, or <<>> when
\* it returns.
JsonParse(text) ==
    IF text = "{\"next_speaker\": \"user\"}" THEN <<>>
    ELSE <<"Unexpected token S in JSON at position 0">>

\* The outer catch block of generateJson(): rethrow when the signal is
\* aborted or the error is the empty-response error; otherwise report it as
\* an API error (an await) and then throw the wrapper.
JsonCatch(call, cause, error) ==
    IF call.aborted \/ error.message = <<EmptyResponseMessage>>
    THEN [call EXCEPT !.pc = "done", !.cause = cause, !.error = error]
    ELSE [call EXCEPT !.pc = "reportApi", !.cause = cause, !.error = error,
                      !.reports = Append(call.reports, "generateJson-api")]

\* generateJson(contents, schema, abortSignal), up to `await retryWithBackoff`.
GenerateJson(signalAborted) ==
    /\ config.ready
    /\ json.pc \in {"idle", "done"}
    /\ json' = [pc |-> "api", aborted |-> signalAborted, cause |-> "none",
                error |-> [message |-> <<>>], reports |-> <<>>]
    /\ UNCHANGED <<config, fallback, nonFallbackVars>>

\* abortSignal is aborted while generateJson() is suspended.
JsonAbort ==
    /\ json.pc \notin {"idle", "done"}
    /\ ~json.aborted
    /\ json' = [json EXCEPT !.aborted = TRUE]
    /\ UNCHANGED <<config, fallback, nonFallbackVars>>

\* retryWithBackoff resolves with a response; getResponseText gives `text`
\* ("<undefined>" when the response has no text part).  No text: the
\* empty-response error is reported (an await).  Text that is not JSON: the
\* SyntaxError is reported (an await).
ApiReturns(text) ==
    /\ json.pc = "api"
    /\ json' =
          IF text \in {"<undefined>", ""}
          THEN [json EXCEPT !.pc = "reportEmpty", !.cause = "empty",
                            !.error = [message |-> <<EmptyResponseMessage>>],
                            !.reports = Append(json.reports, "generateJson-empty-response")]
          ELSE IF JsonParse(text) = <<>> THEN [json EXCEPT !.pc = "done"]
          ELSE [json EXCEPT !.pc = "reportParse", !.cause = "parse",
                            !.error = [message |-> JsonParse(text)],
                            !.reports = Append(json.reports, "generateJson-parse")]
    /\ UNCHANGED <<config, fallback, nonFallbackVars>>

\* retryWithBackoff rejects.
ApiThrows(message) ==
    /\ json.pc = "api"
    /\ json' = JsonCatch(json, "api", [message |-> <<message>>])
    /\ UNCHANGED <<config, fallback, nonFallbackVars>>

\* An `await reportError(...)` of generateJson() resolves and the throw
\* after it runs; what the inner blocks throw lands in the outer catch.
JsonReportReturns ==
    /\ json.pc \in {"reportEmpty", "reportParse", "reportApi"}
    /\ json' =
          CASE json.pc = "reportEmpty" -> JsonCatch(json, json.cause, json.error)
            [] json.pc = "reportParse" ->
                  JsonCatch(json, json.cause,
                            [message |-> <<ParsePrefix>> \o json.error.message])
            [] json.pc = "reportApi" ->
                  [json EXCEPT !.pc = "done",
                               !.error = [message |-> <<ApiPrefix>> \o json.error.message]]
    /\ UNCHANGED <<config, fallback, nonFallbackVars>>

FallbackNext ==
    \/ RefreshAuth
    \/ RefreshAuthReturns
    \/ \E newModel \in Models : ModelSet(newModel)
    \/ ResetModelToDefault
    \/ SetFlashFallbackHandler
    \/ \E authType \in AuthTypes \cup {"undefined"} : HandleFlashFallback(authType)
    \/ \E accepted \in BOOLEAN : HandlerReturns(accepted)
    \/ HandlerThrows
    \/ \E signalAborted \in BOOLEAN : GenerateJson(signalAborted)
    \/ JsonAbort
    \/ \E text \in {"<undefined>", "", "{\"next_speaker\": \"user\"}", "Sure, here it is"} :
          ApiReturns(text)
    \/ \E message \in {"fetch failed", "got status: 503"} : ApiThrows(message)
    \/ JsonReportReturns

\* A Config of either default model beside components that are never called.
FallbackSpecInit ==
    /\ SchedulerInit /\ approvalMode = "DEFAULT" /\ ClientInit /\ EngineInit
    /\ TurnInit /\ RegistryInit /\ ConvertInit /\ McpInit /\ EnsureInit /\ DockerInit
    /\ \E model \in Models : config = NewConfig(model)
    /\ fallback = [pc |-> "idle", authType |-> "undefined",
                   currentModel |-> "undefined", result |-> "none",
                   offered |-> FALSE, offeredBefore |-> FALSE]
    /\ json = [pc |-> "idle", aborted |-> FALSE, cause |-> "none",
               error |-> [message |-> <<>>], reports |-> <<>>]

FallbackSpec == FallbackSpecInit /\ [][FallbackNext]_vars

(***************************************************************************)
(* convertToFunctionResponse(toolName, callId, llmContent)                 *)
(* (core/coreToolScheduler.js).  llmContent is a string, a Part or a list  *)
(* of strings and Parts; `type` stands for what typeof and Array.isArray   *)
(* tell.  A Part names what each of its fields holds, "<absent>" for a     *)
(* field it does not have.  The output of a function response is the       *)
(* sequence of the pieces the code concatenates.                           *)
(***************************************************************************)

Absent == "<absent>"

\* functionResponse.id and functionResponse.name of a Part a tool built:
\* those of the call it answers, or others.
Named == {[id |-> "c1", name |-> "read_file"], [id |-> "c9", name |-> "lint"]}
Unnamed == [id |-> Absent, name |-> Absent]

\* The Parts tried: text (also empty), inlineData / fileData (with a
\* mimeType, with an empty one), functionResponse (without response.content,
\* with content that has text, with content that has none), functionCall.
Parts ==
    {p \in [text : {Absent, "", "done"},
            inlineData : {Absent, "", "image/png"},
            fileData : {Absent, "", "application/pdf"},
            functionResponse : {Absent, "<no content>", "<content without text>",
                                "inner text"},
            named : Named \cup {Unnamed},
            functionCall : BOOLEAN] :
        p.named = Unnamed <=> p.functionResponse = Absent}

StringContent(s) == [type |-> "string", value |-> s]
PartContent(p) == [type |-> "part", part |-> p]
ListContent(items) == [type |-> "list", items |-> items]

EmptyPart ==
    [text |-> Absent, inlineData |-> Absent, fileData |-> Absent,
     functionResponse |-> Absent, named |-> Unnamed, functionCall |-> FALSE]

\* What a list handed over is made of.
ListItems ==
    {StringContent("done"),
     PartContent([EmptyPart EXCEPT !.text = "done"]),
     PartContent([EmptyPart EXCEPT !.text = ""]),
     PartContent([EmptyPart EXCEPT !.inlineData = "image/png"]),
     PartContent([EmptyPart EXCEPT !.fileData = "application/pdf"]),
     PartContent([EmptyPart EXCEPT !.functionCall = TRUE])}

LlmContents ==
    {StringContent(s) : s \in {"", "done"}}
        \cup {PartContent(p) : p \in Parts}
        \cup {ListContent(items) :
                 items \in UNION {[1..n -> ListItems] : n \in 0..MaxParts}}

CreateFunctionResponsePart(callId, toolName, output) ==
    [type |-> "functionResponse", id |-> callId, name |-> toolName,
     output |-> output]

\* What convertToFunctionResponse returns: one part, or a list of parts.
One(part) == [list |-> FALSE, parts |-> <<part>>]

\* The single-Part cases that take a text of any truth value except a
\* truthy one for absent.
ConvertPart_TruthyText(toolName, callId, content) ==
    LET p == content.part
        mimeType ==
            IF p.inlineData \notin {Absent, ""} THEN p.inlineData
            ELSE IF p.fileData \notin {Absent, ""} THEN p.fileData
            ELSE "unknown"
    IN  IF p.functionResponse # Absent
        THEN IF p.functionResponse = "<no content>" THEN One(content)
             ELSE One(CreateFunctionResponsePart(callId, toolName,
                        IF p.functionResponse = "<content without text>"
                        THEN <<"">> ELSE <<p.functionResponse>>))
        ELSE IF p.inlineData # Absent \/ p.fileData # Absent
        THEN [list |-> TRUE,
              parts |-> <<CreateFunctionResponsePart(callId, toolName,
                             <<"Binary content of type ", mimeType,
                               " was processed.">>),
                          content>>]
        ELSE IF p.text \notin {Absent, ""}
        THEN One(CreateFunctionResponsePart(callId, toolName, <<p.text>>))
        ELSE One(CreateFunctionResponsePart(callId, toolName,
                                            <<"Tool execution succeeded.">>))

\* convertToFunctionResponse once contentToProcess is a single Part object.
ConvertPart(toolName, callId, content) ==
    LET p == content.part
        mimeType ==
            IF p.inlineData \notin {Absent, ""} THEN p.inlineData
            ELSE IF p.fileData \notin {Absent, ""} THEN p.fileData
            ELSE "unknown"
    IN  IF p.functionResponse # Absent
        THEN IF p.functionResponse = "<no content>" THEN One(content)
             ELSE One(CreateFunctionResponsePart(callId, toolName,
                        IF p.functionResponse = "<content without text>"
                        THEN <<"">> ELSE <<p.functionResponse>>))
        ELSE IF p.inlineData # Absent \/ p.fileData # Absent
        THEN [list |-> TRUE,
              parts |-> <<CreateFunctionResponsePart(callId, toolName,
                             <<"Binary content of type ", mimeType,
                               " was processed.">>),
                          content>>]
        ELSE IF p.text # Absent
        THEN One(CreateFunctionResponsePart(callId, toolName, <<p.text>>))
        ELSE One(CreateFunctionResponsePart(callId, toolName,
                                            <<"Tool execution succeeded.">>))

\* convertToFunctionResponse that unwraps the first element of every
\* non-empty list.
ConvertToFunctionResponse_UnwrapFirst(toolName, callId, llmContent) ==
    LET contentToProcess ==
            IF llmContent.type = "list" /\ Len(llmContent.items) >= 1
            THEN llmContent.items[1] ELSE llmContent
    IN  CASE contentToProcess.type = "string" ->
                One(CreateFunctionResponsePart(callId, toolName,
                                               <<contentToProcess.value>>))
          [] contentToProcess.type = "list" ->
                [list |-> TRUE,
                 parts |-> <<CreateFunctionResponsePart(callId, toolName,
                                <<"Tool execution succeeded.">>)>>
                           \o contentToProcess.items]
          [] OTHER -> ConvertPart(toolName, callId, contentToProcess)

ConvertToFunctionResponse(toolName, callId, llmContent) ==
    LET contentToProcess ==
            IF llmContent.type = "list" /\ Len(llmContent.items) = 1
            THEN llmContent.items[1] ELSE llmContent
    IN  CASE contentToProcess.type = "string" ->
                One(CreateFunctionResponsePart(callId, toolName,
                                               <<contentToProcess.value>>))
          [] contentToProcess.type = "list" ->
                [list |-> TRUE,
                 parts |-> <<CreateFunctionResponsePart(callId, toolName,
                                <<"Tool execution succeeded.">>)>>
                           \o contentToProcess.items]
          [] OTHER -> ConvertPart(toolName, callId, contentToProcess)

\* The call returns: the responseParts of the successResponse.
Convert ==
    /\ conv.stage = "called"
    /\ conv' = [conv EXCEPT !.stage = "returned",
                            !.status = "success",
                            !.result = ConvertToFunctionResponse(
                                           conv.toolName, conv.callId,
                                           conv.llmContent)]
    /\ UNCHANGED nonConvertVars

\* createErrorResponse(request, error).responseParts
CreateErrorResponse(request, message) ==
    [type |-> "functionResponse", id |-> request.callId, name |-> request.name,
     error |-> <<message>>]

\* execute() rejects: the response of the call in error is built from its
\* request.
ErrorResponse ==
    /\ conv.stage = "called"
    /\ conv' = [conv EXCEPT
                   !.stage = "returned",
                   !.status = "error",
                   !.result = One(CreateErrorResponse(
                                  [callId |-> conv.callId, name |-> conv.toolName],
                                  "executionError"))]
    /\ UNCHANGED nonConvertVars

\* setStatusInternal(callId, 'cancelled', reason): the response of the
\* cancelled call is built from currentCall.request.
CancelledResponse(reason) ==
    /\ conv.stage = "called"
    /\ conv' = [conv EXCEPT
                   !.stage = "returned",
                   !.status = "cancelled",
                   !.result = One([type |-> "functionResponse",
                                   id |-> conv.callId, name |-> conv.toolName,
                                   error |-> <<"[Operation Cancelled] Reason: ",
                                               reason>>])]
    /\ UNCHANGED nonConvertVars

\* convertToFunctionResponse() called on any tool result.
ConvertSpecInit ==
    /\ SchedulerInit /\ approvalMode = "DEFAULT" /\ ClientInit /\ EngineInit
    /\ TurnInit /\ RegistryInit /\ FallbackInit
    /\ McpInit /\ EnsureInit /\ DockerInit
    /\ conv \in [stage : {"called"}, status : {"executing"},
                 toolName : {"read_file", "lint"},
                 callId : {"c1", "c2"}, llmContent : LlmContents,
                 result : {One(EmptyPart)}]

ConvertSpec == ConvertSpecInit /\ [][Convert]_vars

\* The response recorded for a call that leaves executing: success, error
\* or cancelled.
ResponseNext ==
    \/ Convert
    \/ ErrorResponse
    \/ \E reason \in {"User cancelled tool execution.", "User did not allow tool call"} :
          CancelledResponse(reason)

ResponseSpec == ConvertSpecInit /\ [][ResponseNext]_vars

(***************************************************************************)
(* Properties of the scheduler.                                            *)
(***************************************************************************)

Pending(status) == status \in {"validating", "awaiting_approval"}

EdgeTo(status) == \E e \in lastEdges : e[2] = status

\* The calls handed to onAllToolCallsComplete in the last segment.
NotifiedCalls ==
    UNION {{lastNotified[n][i] : i \in DOMAIN lastNotified[n]} : n \in DOMAIN lastNotified}

TrackedCalls == {toolCalls[i] : i \in DOMAIN toolCalls}

\* C1: a call changes to executing only in a segment that leaves no call of
\* the tracked set in validating or awaiting_approval.
C1_NoExecutingWhileSiblingPending ==
    EdgeTo("executing") => \A c \in TrackedCalls : ~Pending(c.status)

\* A call is launched next to a sibling that went through the confirmation gate.
C1_Witness ==
    /\ EdgeTo("executing")
    /\ Len(toolCalls) = 2
    /\ \E c \in TrackedCalls : c.wrapped /\ c.status = "executing"

\* C2: onAllToolCallsComplete receives terminal calls only, leaves no call of
\* their batches tracked, and never receives a call a second time.
C2_NotifiedOnceAllTerminal ==
    /\ \A c \in NotifiedCalls :
          /\ Terminal(c.status)
          /\ \A d \in TrackedCalls : d.batch # c.batch
    /\ \A id \in CallIds : notifyCount[id] <= 1

\* A batch of two calls is reported complete.
C2_Witness ==
    \E n \in DOMAIN lastNotified :
        /\ Len(lastNotified[n]) = 2
        /\ lastNotified[n][1].batch = lastNotified[n][2].batch
        /\ lastNotified[n][1].status # lastNotified[n][2].status

\* C3: the calls of two different schedule() invocations are never tracked
\* together.
C3_OneBatchInFlight ==
    \A c, d \in TrackedCalls : c.batch = d.batch

\* C4: a schedule() invoked while some tracked call is executing or
\* awaiting_approval is rejected and leaves the tracked calls as they were.
C4_RejectedWhileRunning ==
    [][(/\ lastOp'.kind \in {"rejected", "admitted"}
        /\ \E c \in TrackedCalls : c.status \in {"executing", "awaiting_approval"})
       => (/\ lastOp'.kind = "rejected"
           /\ toolCalls' = toolCalls
           /\ sched' = sched
           /\ nextId' = nextId)]_vars

\* schedule() was rejected while a call awaits approval and nothing executes.
C4_Witness ==
    /\ lastOp.kind = "rejected"
    /\ \E c \in TrackedCalls : c.status = "awaiting_approval"
    /\ \A c \in TrackedCalls : c.status # "executing"

AllowedEdges ==
    {<<"validating", "scheduled">>, <<"validating", "awaiting_approval">>,
     <<"validating", "error">>, <<"awaiting_approval", "awaiting_approval">>,
     <<"awaiting_approval", "scheduled">>, <<"awaiting_approval", "cancelled">>,
     <<"awaiting_approval", "error">>, <<"scheduled", "executing">>,
     <<"scheduled", "error">>, <<"executing", "success">>,
     <<"executing", "error">>, <<"executing", "cancelled">>}

\* C5: every status change made by setStatusInternal is one of the listed edges.
C5_OnlyListedEdges ==
    lastEdges \subseteq AllowedEdges

ScenarioA(c) == c.alone /\ c.preAborted /\ c.name \in Tools

\* C6: a lone call scheduled with an already aborted token is never
\* executed, ends cancelled, and is reported complete once.
C6_PreAbortedNeverExecuted ==
    /\ \A c \in TrackedCalls \cup NotifiedCalls :
          ScenarioA(c) => /\ c.execCount = 0
                          /\ notifyCount[c.callId] <= 1
    /\ \A c \in NotifiedCalls : ScenarioA(c) => c.status = "cancelled"

\* C7: an execute() that rejects after the token fired settles the call in
\* cancelled, not error.
C7_RejectAfterAbortCancels ==
    lastOp.kind = "rejectsAborted" => \A e \in lastEdges : e[2] = "cancelled"

\* C8: a request naming an unknown tool, and a call whose confirmation
\* callback throws, end in error.
C8_CallbackThrowEndsInError ==
    /\ \A c \in TrackedCalls : c.name = Unknown => c.status = "error"
    /\ lastOp.kind = "onConfirmThrows" =>
          \E c \in TrackedCalls \cup NotifiedCalls :
              c.callId = lastOp.callId /\ c.status = "error"

\* Nothing is left that could move a call: no schedule() or confirmation
\* handler is suspended, no execute() is unsettled, no call awaits approval.
Quiescent ==
    /\ sched = {}
    /\ confirms = EmptyBag
    /\ running = EmptyBag
    /\ \A c \in TrackedCalls : c.status # "awaiting_approval"

\* C9: a batch is never stuck: once every confirmation is answered and every
\* execute() has settled, the batch has been reported and the active set is
\* empty.
C9_NeverStuck ==
    Quiescent => toolCalls = <<>>

\* C10: the segment that opens the gate leaves no call in scheduled, and
\* every executing call has an unsettled execute().
C10_DispatchedTogether ==
    EdgeTo("executing") =>
        \A c \in TrackedCalls :
            /\ c.status # "scheduled"
            /\ c.status = "executing" => BagIn(c.callId, running)

\* Two calls of one batch are started in the same segment.
C10_Witness ==
    /\ EdgeTo("executing")
    /\ Len(toolCalls) = 2
    /\ toolCalls[1].batch = toolCalls[2].batch
    /\ \A c \in TrackedCalls :
          c.status = "executing" /\ c.execCount = 1 /\ BagIn(c.callId, running)

\* C11: a batch-complete notification carries terminal calls only and, for
\* every batch it reports, all the calls that schedule() tracked for it; it
\* leaves the active set empty, and a schedule() issued in the state the
\* notification leaves is admitted.
C11_NotificationCarriesWholeBatch ==
    [][/\ \A n \in DOMAIN lastNotified' :
             LET note == lastNotified'[n]
             IN  /\ toolCalls' = <<>>
                 /\ \A i \in DOMAIN note :
                       /\ Terminal(note[i].status)
                       /\ Cardinality({j \in DOMAIN note :
                                          note[j].batch = note[i].batch})
                              = note[i].size
       /\ (lastNotified # <<>> /\ lastOp'.kind \in {"rejected", "admitted"})
             => lastOp'.kind = "admitted"]_vars

\* A schedule() is admitted after the notification of an earlier batch.
C11_Witness ==
    /\ lastOp.kind = "admitted"
    /\ toolCalls = <<>>
    /\ notifyCount[1] = 1
    /\ \E p \in sched : p.first = 2

(***************************************************************************)
(* Properties of the client.                                               *)
(***************************************************************************)

\* C12: a sendMessageStream call runs at most min(turns, MAX_TURNS) Turns
\* (none when that is below 0), and with turns = 1 it has run exactly one
\* Turn when it ends.
C12_TurnBudgetBounded ==
    caller = "stream" =>
        /\ turnCount <= (IF Min(turnsArg, MAX_TURNS) < 0 THEN 0
                         ELSE Min(turnsArg, MAX_TURNS))
        /\ (cpc = "done" /\ turnsArg = 1) => turnCount = 1

\* tryCompressChat() has the token count and the limit and has decided.
Decided == compression.limit # 0

\* C15: a non-forced tryCompressChat on a non-empty history goes on to
\* summarize exactly when 10 * originalTokenCount >= 7 * limit; against a
\* limit of 10,000 that is exactly from 7,000 tokens on.
C15_TriggersAtThreshold ==
    (Decided /\ ~compression.force) =>
        /\ compression.triggered
              <=> 10 * compression.count >= 7 * compression.limit
        /\ compression.limit = 10000 =>
              (compression.triggered <=> compression.count >= 7000)

\* Summarization was started at exactly 7,000 tokens against 10,000.
C15_Witness ==
    /\ cpc = "summarize"
    /\ ~compression.force
    /\ compression.triggered
    /\ compression.count = 7000
    /\ compression.limit = 10000

\* tryCompressChat() has replaced the chat, and no Turn has run since.
Compressed == compression.result \in {"replaced", "info"}
                 \/ (compression.triggered /\ compression.result = "null")

C13_LoopTerminates ==
    (epc = "turn") ~> (epc \in {"done", "threw"})

\* C14: after an executeToolCall that failed (an error in the response, or
\* an exception) the generator has not returned: it goes on with the next
\* request or the continuation turn, and the failure is among the parts
\* collected for the model.
C14_ToolFailureContinuesLoop ==
    lastTool.outcome \in {"error", "throws"} =>
        /\ epc \in {"tool", "turn"}
        /\ \E k \in DOMAIN toolResponseParts :
              /\ toolResponseParts[k].callId = lastTool.callId
              /\ toolResponseParts[k].response = "error"

(***************************************************************************)
(* Properties of Turn.run().                                               *)
(***************************************************************************)

Finished == tpc \in {"returned", "threw"}

EventsOfType(type) == {k \in DOMAIN turnEvents : turnEvents[k].type = type}

LastEventIs(type) ==
    turnEvents # <<>> /\ turnEvents[Len(turnEvents)].type = type

\* C17: when the token was set while run() was consuming the stream, a
\* finished run() has yielded exactly one UserCancelled, as its last event;
\* and no event or pending tool call comes from a chunk handed to the loop
\* after the token was set.
C17_CancelledMidStream ==
    cancelledAt.during \in {"streaming", "inChunk"} =>
        /\ Finished => Cardinality(EventsOfType("UserCancelled")) = 1
        /\ \A k \in EventsOfType("UserCancelled") : k = Len(turnEvents)
        /\ \A k \in DOMAIN turnEvents : turnEvents[k].chunk <= cancelledAt.chunkNo
        /\ \A k \in DOMAIN pendingToolCalls :
              pendingToolCalls[k].chunk <= cancelledAt.chunkNo

\* The token was set before the failure reached the catch block.
CancelledBeforeFailure ==
    caught # "none" /\ cancelled /\ cancelledAt.during # "reporting"

\* C18: a failure that reaches the catch block with the token set ends
\* run() with UserCancelled: no Error event, nothing thrown.
C18_CancellationBeforeErrors ==
    CancelledBeforeFailure =>
        /\ tpc = "returned"
        /\ LastEventIs("UserCancelled")
        /\ EventsOfType("Error") = {}

\* C19: a failure that reaches the catch block with the token not set is
\* thrown on, with no event made of it, if it is an authorization failure;
\* any other is reported and yielded as one Error event, the last event of
\* the run, and nothing is thrown.
C19_ErrorsWhileNotCancelled ==
    (caught # "none" /\ ~CancelledBeforeFailure) =>
        IF caught = "unauthorized"
        THEN /\ tpc = "threw"
             /\ EventsOfType("Error") = {}
             /\ EventsOfType("UserCancelled") = {}
        ELSE /\ tpc \in {"reporting", "returned"}
             /\ EventsOfType("UserCancelled") = {}
             /\ tpc = "reporting" => EventsOfType("Error") = {}
             /\ tpc = "returned" =>
                   /\ Cardinality(EventsOfType("Error")) = 1
                   /\ LastEventIs("Error")

\* The stream failed mid-way with the token not set, and the Error event
\* followed the events of the chunks before it.
C19_Witness ==
    /\ tpc = "returned"
    /\ caught = "withStatus"
    /\ ~cancelled
    /\ Len(turnEvents) >= 2
    /\ LastEventIs("Error")

(***************************************************************************)
(* Properties of the registry.                                             *)
(***************************************************************************)

\* C20: a discoverTools() that began with registry and sources as the
\* discoverTools() before it left them leaves the registry as it found it;
\* and after any completed discoverTools() the registry holds one entry per
\* name and no discovered entry that the sources do not offer.
C20_DiscoverIdempotent ==
    /\ (rlast \in {"completed", "threw"} /\ repeated) => tools = before
    /\ rlast = "completed" =>
          /\ \A e, f \in tools : e.name = f.name => e = f
          /\ \A e \in tools :
                /\ e.kind = "discovered" =>
                      discoveryCmd.state = "ok" /\ e.name \in discoveryCmd.names
                /\ e.kind = "mcp" => e.name \in mcpTools

\* A second discoverTools() completed on a registry holding a manual tool
\* and discovered ones.
C20_Witness ==
    /\ rlast = "completed"
    /\ repeated
    /\ \E e, f \in tools : e.kind = "manual" /\ f.kind \in {"discovered", "mcp"}
    /\ discoveryCmd.names # {}
    /\ mcpTools # {}

(***************************************************************************)
(* Properties of the tool registry, continued.                             *)
(***************************************************************************)

ManualEntries(map) == {e \in map : e.kind = "manual"}

\* C21: whenever no discoverTools() is in progress, every name a tool was
\* registered for by hand still resolves to a hand-registered tool.
C21_ManualToolsSurviveDiscovery ==
    rpc = "idle" => \A n \in manualNames : Entry(n, "manual") \in tools

\* C22: discoverTools() rejects exactly when the discovery command prints
\* something that is not JSON, and the rejected call leaves every
\* hand-registered tool it found in the registry.
C22_InvalidJsonKeepsManualTools ==
    /\ rlast = "threw" =>
          /\ discoveryCmd.state = "invalid"
          /\ rpc = "idle"
          /\ ManualEntries(before) \subseteq tools
    /\ (rpc = "mcp" \/ rlast = "completed") => discoveryCmd.state # "invalid"

\* A rejected discoverTools() that found a hand-registered tool beside
\* discovered ones, which it evicted.
C22_Witness ==
    /\ rlast = "threw"
    /\ ManualEntries(before) # {}
    /\ before \ ManualEntries(before) # {}
    /\ tools = ManualEntries(before)

(***************************************************************************)
(* Properties of the model fallback and of generateJson().                 *)
(***************************************************************************)

\* C23: handleFlashFallback() returns a model only when called with the
\* OAuth auth type, and a call that begins after a fallback model was
\* returned in the session returns no model.
C23_FallbackOfferedOnce ==
    /\ fallback.result \notin {"none", "null"} => fallback.authType = "oauth-personal"
    /\ (fallback.pc = "idle" /\ fallback.offeredBefore) =>
          fallback.result \in {"none", "null"}

\* The error that reaches the caller of generateJson(), read by the kind of
\* its message.
ErrorKind(error) ==
    CASE error.message = <<>> -> "none"
      [] error.message = <<EmptyResponseMessage>> -> "empty"
      [] Head(error.message) = ParsePrefix -> "parse"
      [] OTHER -> "api"

\* C24: when generateJson() has settled, the error that reached the caller
\* is of the parse kind exactly when the text was not JSON, of the
\* empty-response kind exactly when there was no text, and of the generic
\* kind exactly when the API call failed.
C24_JsonErrorKindsDistinct ==
    json.pc = "done" => ErrorKind(json.error) = json.cause

(***************************************************************************)
(* Properties of convertToFunctionResponse().                              *)
(***************************************************************************)

\* The three shapes in which a tool hands over the string s.
TextShapes(s) ==
    {StringContent(s), PartContent([EmptyPart EXCEPT !.text = s]),
     ListContent(<<PartContent([EmptyPart EXCEPT !.text = s])>>)}

SingleResponse(output) ==
    One(CreateFunctionResponsePart(conv.callId, conv.toolName, output))

\* C25: the string s, the part {text: s} and the list [{text: s}] are each
\* converted to one function response for the call, whose output reads s.
C25_TextRoundTrip ==
    conv.stage = "returned" =>
        \A s \in {"", "done"} :
            conv.llmContent \in TextShapes(s) => conv.result = SingleResponse(<<s>>)

\* The empty string, handed over as a part in a list, has been converted.
C25_Witness ==
    /\ conv.stage = "returned"
    /\ conv.llmContent = ListContent(<<PartContent([EmptyPart EXCEPT !.text = ""])>>)
    /\ conv.result.parts[1].output = <<"">>

Binary(p) == p.inlineData # Absent \/ p.fileData # Absent

MimeTypeOf(p) ==
    IF p.inlineData \notin {Absent, ""} THEN p.inlineData
    ELSE IF p.fileData \notin {Absent, ""} THEN p.fileData
    ELSE "unknown"

\* The content a call converts once a one-element list is unwrapped.
Unwrapped ==
    IF conv.llmContent.type = "list" /\ Len(conv.llmContent.items) = 1
    THEN conv.llmContent.items[1] ELSE conv.llmContent

\* What the conversion rule gives for a list and for a binary part.
ListAndBinaryRule ==
    /\ Unwrapped.type = "list" =>
          conv.result =
              [list |-> TRUE,
               parts |-> SingleResponse(<<"Tool execution succeeded.">>).parts
                             \o conv.llmContent.items]
    /\ (Unwrapped.type = "part" /\ Unwrapped.part.functionResponse = Absent
          /\ Binary(Unwrapped.part)) =>
          conv.result =
              [list |-> TRUE,
               parts |-> SingleResponse(<<"Binary content of type ",
                                          MimeTypeOf(Unwrapped.part),
                                          " was processed.">>).parts
                             \o <<Unwrapped>>]

\* C26 as stated: lists of a length other than one and binary parts follow
\* the rule, and every other single part that carries no text gives one
\* "Tool execution succeeded." response.
C26_NonTextRule ==
    conv.stage = "returned" =>
        /\ ListAndBinaryRule
        /\ (Unwrapped.type = "part" /\ ~Binary(Unwrapped.part)
              /\ Unwrapped.part.text = Absent) =>
              conv.result = SingleResponse(<<"Tool execution succeeded.">>)

\* C26, amended: the same, except that a part with a functionResponse is
\* not converted by these rules: it is returned as it is, or, when its
\* response has content, as one response carrying the text of that content.
C26_NonTextRuleButFunctionResponse ==
    conv.stage = "returned" =>
        /\ ListAndBinaryRule
        /\ (Unwrapped.type = "part" /\ ~Binary(Unwrapped.part)
              /\ Unwrapped.part.text = Absent
              /\ Unwrapped.part.functionResponse = Absent) =>
              conv.result = SingleResponse(<<"Tool execution succeeded.">>)
        /\ (Unwrapped.type = "part" /\ Unwrapped.part.functionResponse # Absent) =>
              conv.result =
                  CASE Unwrapped.part.functionResponse = "<no content>" ->
                          One(Unwrapped)
                    [] Unwrapped.part.functionResponse = "<content without text>" ->
                          SingleResponse(<<"">>)
                    [] OTHER -> SingleResponse(<<Unwrapped.part.functionResponse>>)

\* A list of two parts, one of them binary, has been converted.
C26_Witness ==
    /\ conv.stage = "returned"
    /\ conv.llmContent.type = "list"
    /\ Len(conv.llmContent.items) = 2
    /\ conv.llmContent.items[2].type = "part"
    /\ Binary(conv.llmContent.items[2].part)
    /\ Len(conv.result.parts) = 3

(***************************************************************************)
(* Properties of the engine's tool events.                                 *)
(***************************************************************************)

\* The types of the events yielded for a callId in this round, in order.
RECURSIVE TypesOf(_, _)
TypesOf(events, callId) ==
    IF events = <<>> THEN <<>>
    ELSE (IF Head(events).callId = callId THEN <<Head(events).type>> ELSE <<>>)
             \o TypesOf(Tail(events), callId)

\* C27: when streamWithToolEvents() has returned, every tool call requested
\* in its last round has had tool_request, then tool_start, then one
\* tool_result or tool_error, and nothing else.
C27_ToolEventsInOrder ==
    (method = "streamWithToolEvents" /\ epc = "done") =>
        \A k \in DOMAIN toolCallRequests :
            TypesOf(yielded, toolCallRequests[k]) \in
                {<<"tool_request", "tool_start", "tool_result">>,
                 <<"tool_request", "tool_start", "tool_error">>}

(***************************************************************************)
(* Properties of the scheduler, continued.                                 *)
(***************************************************************************)

\* C28: execute() is invoked at most once for a call, whatever confirmation
\* responses arrive for it and however their handlers interleave.
C28_ExecutedAtMostOnce ==
    \A c \in TrackedCalls \cup NotifiedCalls : c.execCount <= 1

\* C29: a call is executed only under YOLO, or when shouldConfirmExecute
\* asked for no confirmation, or after a proceed outcome arrived for it
\* while the token was not aborted; and a call for which Cancel was
\* answered has never been executed.
C29_ExecutedOnlyWhenApproved ==
    \A c \in TrackedCalls \cup NotifiedCalls :
        /\ (c.status = "executing" \/ c.execCount > 0) =>
              approvalMode = "YOLO" \/ ~c.wrapped \/ c.approved
        /\ c.outcome = "Cancel" => c.execCount = 0

\* C30: the .then handler of execute() that finds the token aborted moves no
\* call to success, and the call it is for, if still tracked or just
\* reported, is cancelled.
C30_AbortedResultIsCancelled ==
    lastOp.kind = "resolvesAborted" =>
        /\ ~EdgeTo("success")
        /\ \A c \in TrackedCalls \cup NotifiedCalls :
              c.callId = lastOp.callId => c.status = "cancelled"

\* C31: when execute() returns (does not throw) a result that carries an
\* explicit error field, the call settles in error, not in success.
C31_ErrorFieldSettlesInError ==
    lastOp.kind = "resolvesWithError" =>
        /\ ~EdgeTo("success")
        /\ \A c \in TrackedCalls \cup NotifiedCalls :
              c.callId = lastOp.callId => c.status = "error"

\* C32: terminal states are absorbing.  A tracked call in success, error or
\* cancelled keeps its status and its response through every step
\* (confirmation responses, live-output chunks, execution completions),
\* until the step that drains the batch, which hands it to
\* onAllToolCallsComplete with that status and that response.
C32_TerminalIsAbsorbing ==
    [][\A i \in DOMAIN toolCalls :
          Terminal(toolCalls[i].status) =>
              LET same(c) == /\ c.callId = toolCalls[i].callId
                             /\ c.status = toolCalls[i].status
                             /\ c.response = toolCalls[i].response
              IN  IF toolCalls' = <<>>
                  THEN \E n \in DOMAIN lastNotified' :
                           \E k \in DOMAIN lastNotified'[n] : same(lastNotified'[n][k])
                  ELSE i \in DOMAIN toolCalls' /\ same(toolCalls'[i])]_vars

\* A tracked call that succeeded and was answered Cancel afterwards, and a
\* sibling that took a live-output chunk.
C32_Witness ==
    \E i, j \in DOMAIN toolCalls :
        /\ toolCalls[i].status = "success"
        /\ toolCalls[i].outcome = "Cancel"
        /\ toolCalls[j].liveOutput

\* The handleConfirmationResponse() invocations with outcome ModifyWithEditor
\* that this step resumes: after `await originalOnConfirm` with the token not
\* aborted, or after `await modifyWithEditor`.
ModifyResumed(h) ==
    /\ h.outcome = "ModifyWithEditor"
    /\ CopiesIn(h, confirms') < CopiesIn(h, confirms)
    /\ h.pc = "onConfirm" => ~aborted

\* C33: a ModifyWithEditor outcome (token not aborted) never moves the call
\* out of awaiting_approval; when the editor round-trip returns, the call has
\* the edited args and is awaiting_approval again; and the handling of the
\* outcome neither schedules nor executes a call for which no proceed
\* outcome has arrived.
C33_ModifyStaysAwaitingApproval ==
    [][\A h \in BagToSet(confirms) : ModifyResumed(h) =>
          \A i \in DOMAIN toolCalls : toolCalls[i].callId = h.callId =>
              LET c == toolCalls[i]
                  kept == i \in DOMAIN toolCalls'
                  d == toolCalls'[i]
              IN  /\ c.status = "awaiting_approval" =>
                        /\ kept /\ d.status = "awaiting_approval"
                        \* no status written: modifyWithEditor threw
                        /\ h.pc = "editor" => lastEdges' = {} \/ d.args = "edited"
                  /\ (kept /\ ~c.approved) =>
                        /\ d.execCount = c.execCount
                        /\ d.status \in {"scheduled", "executing"} =>
                               d.status = c.status]_vars

\* The editor round-trip has returned for a call in awaiting_approval.
C33_Witness ==
    \E i \in DOMAIN toolCalls :
        /\ toolCalls[i].status = "awaiting_approval"
        /\ toolCalls[i].outcome = "ModifyWithEditor"
        /\ toolCalls[i].args = "edited"
        /\ <<"awaiting_approval", "awaiting_approval">> \in lastEdges

\* What C34 says of an inference that did not answer 'model'.
NoContinuationUnlessModel ==
    frame.inference \in {"user", "none", "threw"} => cpc \in {"done", "threw"}

\* C34 as stated: a "Please continue." continuation is started only if the
\* Turn before it had no pending tool calls, the cancel token is not set and
\* checkNextSpeaker() answered 'model'; when the inference fails or answers
\* anything else, sendMessageStream ends without a continuation.
C34_ContinuationOnlyOnModel ==
    /\ frame.continuation =>
          /\ ~frame.from.pending
          /\ frame.from.liveAtEntry
          /\ frame.from.inference = "model"
    /\ NoContinuationUnlessModel

\* C34 with the token read where the code reads it: a continuation is started
\* only if, when the Turn before it ended, the Turn had no pending tool calls
\* and the cancel token was not set, and checkNextSpeaker() then answered
\* 'model'.
C34_ContinuationOnlyOnModelTokenAtTurnEnd ==
    /\ frame.continuation =>
          /\ ~frame.from.pending
          /\ frame.from.live
          /\ frame.from.inference = "model"
    /\ NoContinuationUnlessModel

\* A continuation has been started and has run its Turn.
C34_Witness ==
    /\ frame.continuation
    /\ frame.events # <<>>
    /\ turnCount = 2

\* C35: whenever tryCompressChat() has replaced the history before a
\* sub-turn, sendMessageStream has yielded one ChatCompressed event with the
\* count before and the count after by the time the sub-turn's Turn runs, and
\* no event of a frame comes before its ChatCompressed.
C35_ChatCompressedBeforeTurn ==
    /\ (caller = "stream" /\ cpc = "turn" /\ Compressed) =>
          frame.events = <<ChatCompressed(compression.count, compression.newCount)>>
    /\ \A i \in DOMAIN frame.events :
          frame.events[i].type = "ChatCompressed" => i = 1

\* The toolCallRequests of the ToolCallRequest events run() has yielded, in
\* the order it yielded them.
RECURSIVE RequestsYielded(_)
RequestsYielded(events) ==
    IF events = <<>> THEN <<>>
    ELSE IF Head(events).type = "ToolCallRequest"
         THEN <<Head(events).value>> \o RequestsYielded(Tail(events))
         ELSE RequestsYielded(Tail(events))

\* C36: pendingToolCalls is the sequence of ToolCallRequest events yielded,
\* and when run() has ended it holds, in order, one request for every
\* function call of the chunks run() processed, with the backend's id as
\* callId or a generated one where the backend gave none.
C36_EveryFunctionCallRequested ==
    /\ pendingToolCalls = RequestsYielded(turnEvents)
    /\ tpc \in {"returned", "threw"} =>
          /\ Len(pendingToolCalls) = Len(functionCalls)
          /\ \A k \in DOMAIN pendingToolCalls :
                k \in DOMAIN functionCalls =>
                    /\ pendingToolCalls[k].chunk = functionCalls[k].chunk
                    /\ IF functionCalls[k].id = NoId
                       THEN pendingToolCalls[k].callId[1] = "generated"
                       ELSE pendingToolCalls[k].callId = functionCalls[k].id

\* The functionResponse id and name of the parts of a recorded response
\* that are function responses.
FunctionResponsesIn(result) ==
    {IF result.parts[k].type = "functionResponse"
     THEN [id |-> result.parts[k].id, name |-> result.parts[k].name]
     ELSE result.parts[k].part.named :
        k \in {j \in DOMAIN result.parts :
                  \/ result.parts[j].type = "functionResponse"
                  \/ /\ result.parts[j].type = "part"
                     /\ result.parts[j].part.functionResponse # Absent}}

OwnResponse == {[id |-> conv.callId, name |-> conv.toolName]}

\* C37 as stated: the response recorded for a terminal call carries the
\* call's own callId and tool name in its function-response part, for every
\* shape of tool output.
C37_ResponseNamesItsCall ==
    conv.stage = "returned" => FunctionResponsesIn(conv.result) = OwnResponse

(***************************************************************************)
(* DiscoveredMCPTool (tools/mcp-tool.js): shouldConfirmExecute() and the   *)
(* onConfirm of the confirmationDetails it returns.  Names are strings,    *)
(* kept as the sequence of their characters; an allowlist key is a server  *)
(* name, or a server name, a dot and a tool name.                          *)
(***************************************************************************)
\* The MCP tools discovered: servers "a" and "a.b" are not trusted, "c" is.
DiscoveredMCPTools ==
    [serverName : {<<"a">>, <<"a", ".", "b">>}, serverToolName : {<<"b">>, <<"t">>},
     trust : {FALSE}]
        \cup [serverName : {<<"c">>}, serverToolName : {<<"t">>}, trust : {TRUE}]

ServerAllowListKey(tool) == tool.serverName

\* `${this.serverName}.${this.serverToolName}`
ToolAllowListKey(tool) == tool.serverName \o <<".">> \o tool.serverToolName

\* What shouldConfirmExecute() returns with this allowlist: TRUE for
\* confirmationDetails, FALSE for false.
Confirms(tool, allowlist) ==
    IF tool.trust
    THEN FALSE
    ELSE IF \/ ServerAllowListKey(tool) \in allowlist
            \/ ToolAllowListKey(tool) \in allowlist
         THEN FALSE
         ELSE TRUE

ShouldConfirmExecute(tool) ==
    /\ mcpTool' = [mcpTool EXCEPT
                     !.details = IF Confirms(tool, mcpTool.allowlist)
                             THEN @ \cup {tool} ELSE @,
                 !.last = <<[op |-> "shouldConfirmExecute", tool |-> tool,
                             outcome |-> IF Confirms(tool, mcpTool.allowlist)
                                         THEN "details" ELSE "false"]>>]
    /\ UNCHANGED nonMcpVars

McpOutcomes ==
    {"ProceedOnce", "ProceedAlwaysServer", "ProceedAlwaysTool", "Cancel"}

\* confirmationDetails.onConfirm(outcome) of a confirmation handed out.
OnConfirm(tool, outcome) ==
    /\ tool \in mcpTool.details
    /\ mcpTool' = [mcpTool EXCEPT
                     !.allowlist =
                     IF outcome = "ProceedAlwaysServer"
                     THEN @ \cup {ServerAllowListKey(tool)}
                     ELSE IF outcome = "ProceedAlwaysTool"
                          THEN @ \cup {ToolAllowListKey(tool)}
                          ELSE @,
                 !.last = <<[op |-> "onConfirm", tool |-> tool,
                             outcome |-> outcome]>>]
    /\ UNCHANGED nonMcpVars

McpNext ==
    \/ \E tool \in DiscoveredMCPTools : ShouldConfirmExecute(tool)
    \/ \E tool \in DiscoveredMCPTools, outcome \in McpOutcomes : OnConfirm(tool, outcome)

McpSpecInit ==
    SchedulerInit /\ approvalMode = "DEFAULT" /\ ClientInit /\ EngineInit /\ TurnInit
        /\ RegistryInit /\ FallbackInit /\ ConvertInit /\ McpInit /\ EnsureInit
        /\ DockerInit

McpSpec == McpSpecInit /\ [][McpNext]_vars

\* The step is the onConfirm of tool's confirmation, answered
\* ProceedAlwaysTool.
AlwaysToolAnswered(tool) ==
    /\ tool \in mcpTool.details
    /\ mcpTool'.last = <<[op |-> "onConfirm", tool |-> tool,
                      outcome |-> "ProceedAlwaysTool"]>>

\* C38: answering the confirmation of tool T on server S with
\* ProceedAlwaysTool removes the confirmation only for T on S: every
\* untrusted tool on another server, and every other tool on S, that asked
\* for confirmation before the answer still asks after it.
C38_AlwaysToolOnlyThatTool ==
    [][\A tool \in DiscoveredMCPTools : AlwaysToolAnswered(tool) =>
          \A other \in DiscoveredMCPTools :
              (/\ ~other.trust
               /\ \/ other.serverName # tool.serverName
                  \/ other.serverToolName # tool.serverToolName
               /\ Confirms(other, mcpTool.allowlist))
                  => Confirms(other, mcpTool'.allowlist)]_vars

(***************************************************************************)
(* EngineService.ensureInitialized() (engine/services/engine.ts,           *)
(* engine/engine.ts).  stream(), streamWithToolEvents(), getTools() and    *)
(* executeTool() each begin with `await this.ensureInitialized()`; a call  *)
(* is followed from one await of ensureInitialized() to the next.          *)
(***************************************************************************)
EngineMethods == {"stream", "streamWithToolEvents", "getTools", "executeTool"}

\* What ensureInitialized() awaits, in order; engine/engine.ts has no
\* refreshAuth.
InitSteps(withAuth) ==
    (IF withAuth THEN <<"refreshAuth">> ELSE <<>>)
        \o <<"initialize", "getToolRegistry", "getFileService",
             "loadServerHierarchicalMemory">>

\* A public method is called: ensureInitialized() runs up to its first
\* await, or returns at once when this.initialized is set.
EnsureInitialized(m) ==
    /\ Len(ensure.callers) < MaxCallers
    /\ ensure' = [ensure EXCEPT
                    !.callers = Append(@, [method |-> m,
                                           at |-> IF initialized THEN "ready"
                                                  ELSE InitSteps(ensure.withAuth)[1]])]
    /\ UNCHANGED <<initialized, nonEnsureVars>>
    /\ UNCHANGED <<epc, method, currentMessages, toolCallRequests, toolIdx,
                   toolResponseParts, yielded, lastTool>>

\* The step after `at` in ensureInitialized(), "done" after the last.
StepAfter(at, withAuth) ==
    LET steps == InitSteps(withAuth)
        k == CHOOSE j \in DOMAIN steps : steps[j] = at
    IN  IF k = Len(steps) THEN "done" ELSE steps[k + 1]

\* The awaited step of caller c resolves: the next one is begun, or
\* this.initialized is set.
StepResolves(c) ==
    LET at == ensure.callers[c].at
        next == StepAfter(at, ensure.withAuth)
    IN  /\ at \notin {"ready", "threw"}
        /\ ensure' = [ensure EXCEPT
                        !.callers[c].at = IF next = "done" THEN "ready" ELSE next,
                        !.completed = IF next = "done" THEN @ + 1 ELSE @,
                        !.late = IF next # "done" /\ initialized THEN @ + 1 ELSE @]
        /\ initialized' = IF next = "done" THEN TRUE ELSE initialized
        /\ UNCHANGED nonEnsureVars
        /\ UNCHANGED <<epc, method, currentMessages, toolCallRequests, toolIdx,
                       toolResponseParts, yielded, lastTool>>

\* The awaited step of caller c rejects: the catch rethrows.
StepRejects(c) ==
    /\ ensure.callers[c].at \notin {"ready", "threw"}
    /\ ensure' = [ensure EXCEPT !.callers[c].at = "threw"]
    /\ UNCHANGED <<initialized, nonEnsureVars>>
    /\ UNCHANGED <<epc, method, currentMessages, toolCallRequests, toolIdx,
                   toolResponseParts, yielded, lastTool>>

EnsureNext ==
    \/ \E m \in EngineMethods : EnsureInitialized(m)
    \/ \E c \in DOMAIN ensure.callers : StepResolves(c)
    \/ \E c \in DOMAIN ensure.callers : StepRejects(c)

EnsureSpecInit ==
    /\ SchedulerInit /\ approvalMode = "DEFAULT" /\ ClientInit /\ EngineInit
    /\ TurnInit /\ RegistryInit /\ FallbackInit /\ ConvertInit /\ McpInit
    /\ DockerInit
    /\ ensure \in [callers : {<<>>}, withAuth : BOOLEAN, completed : {0}, late : {0}]

EnsureSpec == EnsureSpecInit /\ [][EnsureNext]_vars

\* C39: the initialization runs at most once per instance once it has
\* succeeded, also when the public methods are called before the first
\* initialization has completed: it completes at most once, and none of its
\* steps is begun after this.initialized was set.
C39_InitializedAtMostOnce ==
    /\ ensure.completed <= 1
    /\ ensure.late = 0

(***************************************************************************)
(* DockerEngineService.stream() (engine/services/dockerEngine.ts): one     *)
(* call, followed from await to await.  docker.ops is what the call has    *)
(* done to the HTTP response; json() sends the body and ends the response. *)
(***************************************************************************)
\* catch (error): response.status(500).json({ error: 'Stream failed' })
StreamFailed(ops) == ops \o <<"status", "json">>

\* stream(response, prompt, setHeaders) up to the await of fetch().
DockerStream(setHeaders) ==
    /\ docker.pc = "idle"
    /\ docker' = [pc |-> "fetch",
                  ops |-> IF setHeaders THEN <<"setHeader">> ELSE <<>>]
    /\ UNCHANGED nonDockerVars

\* fetch() settles: it rejects, answers with a status that is not ok,
\* answers without a body, or answers with a body to read.
FetchSettles(outcome) ==
    /\ docker.pc = "fetch"
    /\ docker' = IF outcome = "body"
                 THEN [docker EXCEPT !.pc = "read"]
                 ELSE [pc |-> "returned", ops |-> StreamFailed(docker.ops)]
    /\ UNCHANGED nonDockerVars

\* reader.read() settles: a chunk, which is written, the end of the body,
\* or a rejection; the finally ends the response in the last two cases.
ReadSettles(outcome) ==
    /\ docker.pc = "read"
    /\ outcome \in {"a", "b"} =>
          Len(SelectSeq(docker.ops, LAMBDA o : o \in {"a", "b"})) < MaxReads
    /\ docker' = IF outcome \in {"a", "b"}
                 THEN [docker EXCEPT !.ops = Append(@, outcome)]
                 ELSE IF outcome = "done"
                      THEN [pc |-> "returned", ops |-> Append(docker.ops, "end")]
                      ELSE [pc |-> "returned",
                            ops |-> StreamFailed(Append(docker.ops, "end"))]
    /\ UNCHANGED nonDockerVars

DockerNext ==
    \/ \E setHeaders \in BOOLEAN : DockerStream(setHeaders)
    \/ \E outcome \in {"rejects", "notOk", "noBody", "body"} : FetchSettles(outcome)
    \/ \E outcome \in {"a", "b", "done", "rejects"} : ReadSettles(outcome)

DockerSpecInit ==
    SchedulerInit /\ approvalMode = "DEFAULT" /\ ClientInit /\ EngineInit /\ TurnInit
        /\ RegistryInit /\ FallbackInit /\ ConvertInit /\ McpInit /\ EnsureInit
        /\ DockerInit

DockerSpec == DockerSpecInit /\ [][DockerNext]_vars

\* C40: on every path stream() ends the HTTP response exactly once and
\* does nothing to it after it has been ended, also when the upstream
\* request fails or reading the upstream body fails.
C40_ResponseEndedOnce ==
    LET ends == {k \in DOMAIN docker.ops : docker.ops[k] \in {"end", "json"}}
    IN  /\ \A k \in ends : k = Len(docker.ops)
        /\ docker.pc = "returned" => Cardinality(ends) = 1
====
